---- MODULE Spec2Model ----
(***************************************************************************)
(* A model of the BadgerDB B+ tree index (BTreeIndex) of this repository:  *)
(* the page structures of btree.h, the insert path (insertEntry,           *)
(* insertEntryHelper, insertNodeLeaf, insertNodeNonLeaf, splitLeafNode,    *)
(* splitNonLeafNode, updateRoot) and the scan path (startScan, scanNext,   *)
(* endScan) of btree.cpp, over a paging layer that counts pins.            *)
(*                                                                         *)
(* Arrays are functions over 0..n-1, as in the source.  A page id is its   *)
(* index in the file (pages); page 1 is the meta page, page 2 the initial  *)
(* root leaf.  The fanouts are drawn small in Init; the code reads them    *)
(* from the handle (leafOccupancy, nodeOccupancy) everywhere.  A member    *)
(* function takes the handle it runs on as the record m (or this).         *)
(***************************************************************************)
EXTENDS Integers, Sequences, FiniteSets, Bags, TLC

(***************************************************************************)
(* Bounds of the model.                                                    *)
(***************************************************************************)
\* public insertEntry calls in one run on an index built from an empty relation
MaxInserts == 3
\* public insertEntry calls in one run after a build from a non-empty relation
MaxInsertsAfterBuild == 1
\* length of the longest base relation a build reads
MaxRelation == 7
\* largest key a public insertEntry call passes (the smallest is -MaxKey)
MaxKey == 1

LeafFanouts == {3, 4}
NodeFanouts == {3}
Keys == (0 - MaxKey)..MaxKey
\* the key of the first tuple of a base relation
FirstRelationKey == 0 - (MaxRelation \div 2)

\* enum Operator
LT == "LT"
LTE == "LTE"
GTE == "GTE"
GT == "GT"

VARIABLES
    pages,            \* the index file: page id -> page contents
    pinCnt,           \* the paging layer: page id -> pins held by the index
    headerPageNum,    \* handle fields (btree.h)
    rootPageNum,
    initial,
    leafOccupancy,
    nodeOccupancy,
    scanExecuting,
    nextEntry,
    currentPageNum,
    currentPageData,  \* id of the page whose frame the pointer holds, 0 = nullptr
    lowValInt,
    highValInt,
    lowOp,
    highOp,
    fault,            \* "none", or the undefined behaviour the last call ran into
    inserted,         \* bag of the (key, rid) pairs passed to insertEntry
    nPublic,          \* number of public insertEntry calls so far
    returned,         \* entries scanNext handed out since the last startScan,
                      \* kept while no insertEntry call came in between
    scanDirty,        \* an insertEntry call came since the last startScan
    scanArgs,         \* arguments of the startScan call that opened the scan, <<>>
                      \* once that scan was ended
    built,            \* number of tuples of the base relation the build read
    last,             \* the last public call: name, exception, pin events
    life              \* the handle: "open", "closed" (destroyed) or "none" (the
                      \* constructor threw); the constructor arguments the file
                      \* was created with and those of the last constructor call;
                      \* the constructor calls on the existing file so far; what
                      \* the creating handle held in initial; nPublic at the
                      \* last constructor call

vars == <<pages, pinCnt, headerPageNum, rootPageNum, initial, leafOccupancy,
          nodeOccupancy, scanExecuting, nextEntry, currentPageNum,
          currentPageData, lowValInt, highValInt, lowOp, highOp, fault,
          inserted, nPublic, returned, scanDirty, scanArgs, built, last, life>>

(***************************************************************************)
(* Page structures (btree.h).                                              *)
(***************************************************************************)
NoRid == [page_number |-> 0, slot_number |-> 0]

\* a page as allocPage hands it out, read as a LeafNodeInt
BlankLeaf(this) ==
    [keyArray |-> [i \in 0..(this.leafOccupancy - 1) |-> 0],
     ridArray |-> [i \in 0..(this.leafOccupancy - 1) |-> NoRid],
     rightSibPageNo |-> 0]

\* a page as allocPage hands it out, read as a NonLeafNodeInt
BlankNonLeaf(this) ==
    [level |-> 0,
     keyArray |-> [i \in 0..(this.nodeOccupancy - 1) |-> 0],
     pageNoArray |-> [i \in 0..this.nodeOccupancy |-> 0]]

\* char relationName[20]
NameSize == 20

\* enum Datatype
INTEGER == 0
DOUBLE == 1
STRINGTYPE == 2    \* STRING of enum Datatype

\* a page as allocPage hands it out, read as an IndexMetaInfo
BlankMeta ==
    [relationName |-> [i \in 1..NameSize |-> 0],
     attrByteOffset |-> 0, attrType |-> 0, rootPageNo |-> 0]

RIDKeyPair(r, k) == [rid |-> r, key |-> k]
PageKeyPair(p, k) == [pageNo |-> p, key |-> k]

(***************************************************************************)
(* A page is a block of bytes that the code reads through the struct it    *)
(* casts the page to.  The model keeps a page as the struct last written   *)
(* to it; a read through another struct finds the same bytes, laid out as  *)
(* 4-byte words in the order of the struct's members (a RecordId takes two *)
(* words).  Bytes the struct last written does not cover are zero.         *)
(***************************************************************************)
\* the 4 bytes of a word, lowest first
WordBytes(w) == <<w % 256, (w \div 256) % 256, (w \div 65536) % 256,
                  (w \div 16777216) % 256>>
BytesWord(b) == b[1] + 256 * b[2] + 65536 * b[3] + 16777216 * b[4]

LeafWords(node) ==
    LET n == Cardinality(DOMAIN node.keyArray) IN
    [w \in 1..(3 * n + 1) |->
        IF w <= n THEN node.keyArray[w - 1]
        ELSE IF w = 3 * n + 1 THEN node.rightSibPageNo
        ELSE IF (w - n) % 2 = 1 THEN node.ridArray[(w - n - 1) \div 2].page_number
        ELSE node.ridArray[(w - n - 1) \div 2].slot_number]

NonLeafWords(node) ==
    LET n == Cardinality(DOMAIN node.keyArray) IN
    [w \in 1..(2 * n + 2) |->
        IF w = 1 THEN node.level
        ELSE IF w <= n + 1 THEN node.keyArray[w - 2]
        ELSE node.pageNoArray[w - n - 2]]

MetaWords(meta) ==
    [w \in 1..((NameSize \div 4) + 3) |->
        IF w <= (NameSize \div 4)
        THEN BytesWord([i \in 1..4 |-> meta.relationName[4 * (w - 1) + i]])
        ELSE IF w = (NameSize \div 4) + 1 THEN meta.attrByteOffset
        ELSE IF w = (NameSize \div 4) + 2 THEN meta.attrType
        ELSE meta.rootPageNo]

PageWords(page) ==
    IF "ridArray" \in DOMAIN page THEN LeafWords(page)
    ELSE IF "pageNoArray" \in DOMAIN page THEN NonLeafWords(page)
    ELSE MetaWords(page)

WordAt(words, w) == IF w \in 1..Len(words) THEN words[w] ELSE 0

\* (LeafNodeInt *) page
AsLeaf(this, page) ==
    IF "ridArray" \in DOMAIN page THEN page
    ELSE LET words == PageWords(page)
             n == this.leafOccupancy
         IN  [keyArray |-> [i \in 0..(n - 1) |-> WordAt(words, i + 1)],
              ridArray |-> [i \in 0..(n - 1) |->
                              [page_number |-> WordAt(words, n + 2 * i + 1),
                               slot_number |-> WordAt(words, n + 2 * i + 2)]],
              rightSibPageNo |-> WordAt(words, 3 * n + 1)]

\* (NonLeafNodeInt *) page
AsNonLeaf(this, page) ==
    IF "pageNoArray" \in DOMAIN page THEN page
    ELSE LET words == PageWords(page)
             n == this.nodeOccupancy
         IN  [level |-> WordAt(words, 1),
              keyArray |-> [i \in 0..(n - 1) |-> WordAt(words, i + 2)],
              pageNoArray |-> [i \in 0..n |-> WordAt(words, n + i + 2)]]

\* (IndexMetaInfo *) page
AsMeta(page) ==
    IF "rootPageNo" \in DOMAIN page THEN page
    ELSE LET words == PageWords(page)
             n == NameSize \div 4
         IN  [relationName |->
                 [i \in 1..NameSize |->
                     WordBytes(WordAt(words, ((i - 1) \div 4) + 1))[((i - 1) % 4) + 1]],
              attrByteOffset |-> WordAt(words, n + 1),
              attrType |-> WordAt(words, n + 2),
              rootPageNo |-> WordAt(words, n + 3)]

(***************************************************************************)
(* The paging layer.  A call works on a record m of the file, the pin      *)
(* counts, the handle's root page id, the exception thrown so far, the     *)
(* fault met so far, the pin events of the call and the propagated entry.  *)
(***************************************************************************)
Ev(e, p, d) == [ev |-> e, page |-> p, dirty |-> d]

ValidPage(m, p) == p \in 1..Len(m.pages)

\* readPage: pins page p; a page id the file does not hold is an error
ReadPage(m, p) ==
    IF ValidPage(m, p)
    THEN [m EXCEPT !.pinCnt[p] = @ + 1, !.log = Append(@, Ev("pin", p, FALSE))]
    ELSE [m EXCEPT !.exc = "InvalidPage"]

\* allocPage: appends a page to the file and pins it
AllocPage(m, blank) ==
    [m EXCEPT !.pages = Append(@, blank),
              !.pinCnt = Append(@, 1),
              !.log = Append(@, Ev("pin", Len(m.pages) + 1, FALSE))]

\* unPinPage: releases one pin; a request for a page that holds none is recorded
UnPinPage(m, p, dirty) ==
    IF ValidPage(m, p) /\ m.pinCnt[p] > 0
    THEN [m EXCEPT !.pinCnt[p] = @ - 1, !.log = Append(@, Ev("unpin", p, dirty))]
    ELSE [m EXCEPT !.log = Append(@, Ev("badunpin", p, dirty))]

\* entryPropPair / pushUpPage: a pointer to a PageKeyPair; live while the
\* frame that holds the pair exists
NullProp == [null |-> TRUE, live |-> FALSE, pageNo |-> 0, key |-> 0]
PropTo(pair) == [null |-> FALSE, live |-> TRUE, pageNo |-> pair.pageNo, key |-> pair.key]

\* what a read through a pointer into a returned frame may find instead of the pair
StalePairs == {PageKeyPair(0, 0)}

\* the values a read of *prop can yield
Deref(prop) ==
    IF prop.live
    THEN {PageKeyPair(prop.pageNo, prop.key)}
    ELSE {PageKeyPair(prop.pageNo, prop.key)} \cup StalePairs

\* the walk of a call has pinned more pages than a walk that meets no page
\* twice can: it goes round a cycle of page ids, the pages do not change on
\* the way, and the call never returns
Runaway(m) == Len(m.log) > 4 * Len(m.pages) + 8

\* the callee's frame is gone: the pointer it left behind dangles
FrameGone(m) == IF m.prop.null THEN m ELSE [m EXCEPT !.prop.live = FALSE]

\* the state a public call starts from
Machine ==
    [pages |-> pages, pinCnt |-> pinCnt,
     headerPageNum |-> headerPageNum, rootPageNum |-> rootPageNum,
     initial |-> initial,
     leafOccupancy |-> leafOccupancy, nodeOccupancy |-> nodeOccupancy,
     scanExecuting |-> scanExecuting, nextEntry |-> nextEntry,
     currentPageNum |-> currentPageNum, currentPageData |-> currentPageData,
     lowValInt |-> lowValInt, highValInt |-> highValInt,
     lowOp |-> lowOp, highOp |-> highOp,
     exc |-> "none", fault |-> "none", log |-> <<>>, prop |-> NullProp,
     out |-> <<>>]

(***************************************************************************)
(* insertNodeLeaf                                                          *)
(***************************************************************************)
RECURSIVE SkipEmptyRid(_, _)
\* for (; i >= 0 && node->ridArray[i].page_number == 0; --i) {}
SkipEmptyRid(node, i) ==
    IF i >= 0 /\ node.ridArray[i].page_number = 0
    THEN SkipEmptyRid(node, i - 1)
    ELSE i

\* node->ridArray[j] = r; node->keyArray[j] = k; a slot outside the arrays is a fault
PutLeaf(st, j, k, r) ==
    IF j \in DOMAIN st.node.keyArray
    THEN [st EXCEPT !.node.keyArray[j] = k, !.node.ridArray[j] = r]
    ELSE [st EXCEPT !.oob = TRUE]

RECURSIVE ShiftLeaf(_, _, _)
\* for (; i >= 0 && node->keyArray[i] > key; --i) { move slot i to slot i + 1 }
ShiftLeaf(st, i, key) ==
    IF i >= 0 /\ st.node.keyArray[i] > key
    THEN ShiftLeaf(PutLeaf(st, i + 1, st.node.keyArray[i], st.node.ridArray[i]),
                   i - 1, key)
    ELSE [st EXCEPT !.i = i]

insertNodeLeaf(this, node, entryInsertPair) ==
    LET st0 == [node |-> node, i |-> 0, oob |-> FALSE] IN
    IF node.ridArray[0].page_number # 0
    THEN LET st1 == ShiftLeaf(st0, SkipEmptyRid(node, this.leafOccupancy - 1),
                              entryInsertPair.key)
         IN  PutLeaf(st1, st1.i + 1, entryInsertPair.key, entryInsertPair.rid)
    ELSE PutLeaf(st0, 0, entryInsertPair.key, entryInsertPair.rid)

(***************************************************************************)
(* insertNodeNonLeaf                                                       *)
(***************************************************************************)
RECURSIVE SkipEmptyPageNo(_, _)
\* for (; i >= 0 && node->pageNoArray[i] == 0; --i) {}
SkipEmptyPageNo(node, i) ==
    IF i >= 0 /\ node.pageNoArray[i] = 0
    THEN SkipEmptyPageNo(node, i - 1)
    ELSE i

\* node->keyArray[j] = k; a slot outside the array is a fault
PutKey(st, j, k) ==
    IF j \in DOMAIN st.node.keyArray
    THEN [st EXCEPT !.node.keyArray[j] = k]
    ELSE [st EXCEPT !.oob = TRUE]

\* node->pageNoArray[j] = p; a slot outside the array is a fault
PutPageNo(st, j, p) ==
    IF j \in DOMAIN st.node.pageNoArray
    THEN [st EXCEPT !.node.pageNoArray[j] = p]
    ELSE [st EXCEPT !.oob = TRUE]

RECURSIVE ShiftNonLeaf(_, _, _)
\* for (; i > 0 && node->keyArray[i - 1] > key; --i) { move key i-1, child i up }
ShiftNonLeaf(st, i, key) ==
    IF i > 0 /\ st.node.keyArray[i - 1] > key
    THEN ShiftNonLeaf(PutPageNo(PutKey(st, i, st.node.keyArray[i - 1]),
                                i + 1, st.node.pageNoArray[i]),
                      i - 1, key)
    ELSE [st EXCEPT !.i = i]

insertNodeNonLeaf(this, node, pair) ==
    LET st0 == [node |-> node, i |-> 0, oob |-> FALSE]
        st1 == ShiftNonLeaf(st0, SkipEmptyPageNo(node, this.nodeOccupancy), pair.key)
    IN  PutPageNo(PutKey(st1, st1.i, pair.key), st1.i + 1, pair.pageNo)

(***************************************************************************)
(* updateRoot                                                              *)
(***************************************************************************)
SetPage(m, p, page) == [m EXCEPT !.pages[p] = page]

\* updateRoot without the assignment to metaInfoPage->rootPageNo: C10 does
\* not hold of an index that splits its root this way
updateRootKeepMeta(m, oldRootID, pair) ==
    LET newRootID == Len(m.pages) + 1
        m1 == AllocPage(m, BlankNonLeaf(m))
        m2 == ReadPage(m1, m.headerPageNum)
        newRootNode ==
            [BlankNonLeaf(m) EXCEPT
                !.level = IF m.initial = m2.rootPageNum THEN 1 ELSE 0,
                !.keyArray[0] = pair.key,
                !.pageNoArray[0] = oldRootID,
                !.pageNoArray[1] = pair.pageNo]
        m4 == [SetPage(m2, newRootID, newRootNode) EXCEPT !.rootPageNum = newRootID]
    IN  UnPinPage(UnPinPage(m4, newRootID, TRUE), m.headerPageNum, TRUE)

\* updateRoot with rootPageNum = newRootID ahead of the test initial == rootPageNum
updateRootLevelAfter(m, oldRootID, pair) ==
    LET newRootID == Len(m.pages) + 1
        m1 == AllocPage(m, BlankNonLeaf(m))
        m2 == ReadPage(m1, m.headerPageNum)
        m3 == SetPage(m2, m.headerPageNum,
                      [AsMeta(m2.pages[m.headerPageNum]) EXCEPT !.rootPageNo = newRootID])
        newRootNode ==
            [BlankNonLeaf(m) EXCEPT
                !.level = IF m.initial = newRootID THEN 1 ELSE 0,
                !.keyArray[0] = pair.key,
                !.pageNoArray[0] = oldRootID,
                !.pageNoArray[1] = pair.pageNo]
        m4 == [SetPage(m3, newRootID, newRootNode) EXCEPT !.rootPageNum = newRootID]
    IN  UnPinPage(UnPinPage(m4, newRootID, TRUE), m.headerPageNum, TRUE)

\* updateRoot with newRootNode->level = 1 whatever the old root is
updateRootLevelOne(m, oldRootID, pair) ==
    LET newRootID == Len(m.pages) + 1
        m1 == AllocPage(m, BlankNonLeaf(m))
        m2 == ReadPage(m1, m.headerPageNum)
        m3 == SetPage(m2, m.headerPageNum,
                      [AsMeta(m2.pages[m.headerPageNum]) EXCEPT !.rootPageNo = newRootID])
        newRootNode ==
            [BlankNonLeaf(m) EXCEPT
                !.level = 1,
                !.keyArray[0] = pair.key,
                !.pageNoArray[0] = oldRootID,
                !.pageNoArray[1] = pair.pageNo]
        m4 == [SetPage(m3, newRootID, newRootNode) EXCEPT !.rootPageNum = newRootID]
    IN  UnPinPage(UnPinPage(m4, newRootID, TRUE), m.headerPageNum, TRUE)

\* updateRoot: the new root page over oldRootID and the page of pair
updateRoot(m, oldRootID, pair) ==
    LET newRootID == Len(m.pages) + 1
        m1 == AllocPage(m, BlankNonLeaf(m))
        m2 == ReadPage(m1, m.headerPageNum)
        m3 == SetPage(m2, m.headerPageNum,
                      [AsMeta(m2.pages[m.headerPageNum]) EXCEPT !.rootPageNo = newRootID])
        newRootNode ==
            [BlankNonLeaf(m) EXCEPT
                !.level = IF m.initial = m3.rootPageNum THEN 1 ELSE 0,
                !.keyArray[0] = pair.key,
                !.pageNoArray[0] = oldRootID,
                !.pageNoArray[1] = pair.pageNo]
        m4 == [SetPage(m3, newRootID, newRootNode) EXCEPT !.rootPageNum = newRootID]
    IN  UnPinPage(UnPinPage(m4, newRootID, TRUE), m.headerPageNum, TRUE)

(***************************************************************************)
(* splitLeafNode                                                           *)
(***************************************************************************)
\* int mid = leafOccupancy / 2 - 1; if (even && key >= keyArray[mid]) mid++;
LeafMid(this, oldNode, key) ==
    LET mid == (this.leafOccupancy \div 2) - 1 IN
    IF this.leafOccupancy % 2 = 0 /\ key >= oldNode.keyArray[mid] THEN mid + 1 ELSE mid

\* the new leaf after the loop that moves slots mid+1 .. leafOccupancy-1
LeafMovedTo(this, oldNode, mid) ==
    [BlankLeaf(this) EXCEPT
        !.keyArray = [i \in 0..(this.leafOccupancy - 1) |->
                        IF i + mid + 1 < this.leafOccupancy
                        THEN oldNode.keyArray[i + mid + 1] ELSE 0],
        !.ridArray = [i \in 0..(this.leafOccupancy - 1) |->
                        IF i + mid + 1 < this.leafOccupancy
                        THEN oldNode.ridArray[i + mid + 1] ELSE NoRid]]

\* LeafMovedFrom without oldNode->ridArray[i].page_number = 0
LeafMovedFromKeepRids(this, oldNode, mid) ==
    [oldNode EXCEPT
        !.keyArray = [i \in 0..(this.leafOccupancy - 1) |->
                        IF i > mid THEN 0 ELSE oldNode.keyArray[i]]]

\* the old leaf after that loop: keys zeroed, rid page numbers zeroed
LeafMovedFrom(this, oldNode, mid) ==
    [oldNode EXCEPT
        !.keyArray = [i \in 0..(this.leafOccupancy - 1) |->
                        IF i > mid THEN 0 ELSE oldNode.keyArray[i]],
        !.ridArray = [i \in 0..(this.leafOccupancy - 1) |->
                        IF i > mid
                        THEN [oldNode.ridArray[i] EXCEPT !.page_number = 0]
                        ELSE oldNode.ridArray[i]]]

splitLeafNode(m, oldPageID, insertRecord) ==
    LET newPageID == Len(m.pages) + 1
        m1 == AllocPage(m, BlankLeaf(m))
        old0 == AsLeaf(m, m1.pages[oldPageID])
        mid == LeafMid(m, old0, insertRecord.key)
        new1 == LeafMovedTo(m, old0, mid)
        old1 == LeafMovedFrom(m, old0, mid)
        toOld == insertRecord.key < old1.keyArray[mid]
        ins == IF toOld THEN insertNodeLeaf(m, old1, insertRecord)
                        ELSE insertNodeLeaf(m, new1, insertRecord)
        old2 == IF toOld THEN ins.node ELSE old1
        new2 == IF toOld THEN new1 ELSE ins.node
        new3 == [new2 EXCEPT !.rightSibPageNo = old2.rightSibPageNo]
        old3 == [old2 EXCEPT !.rightSibPageNo = newPageID]
        middleRecord == PageKeyPair(newPageID, new3.keyArray[0])
        m2 == [SetPage(SetPage(m1, oldPageID, old3), newPageID, new3) EXCEPT
                  !.prop = PropTo(middleRecord),
                  !.fault = IF ins.oob THEN "oob" ELSE @]
        m3 == IF oldPageID = m2.rootPageNum
              THEN updateRoot(m2, m2.rootPageNum, middleRecord)
              ELSE m2
    IN  UnPinPage(UnPinPage(m3, oldPageID, TRUE), newPageID, TRUE)

(***************************************************************************)
(* splitNonLeafNode; pair is what the reads of *pushUpPage yield           *)
(***************************************************************************)
\* int mid = nodeOccupancy / 2 - 1; if (even && key >= keyArray[mid]) mid++; mid++;
NonLeafMid(this, oldNode, key) ==
    LET mid == (this.nodeOccupancy \div 2) - 1 IN
    IF this.nodeOccupancy % 2 = 0 /\ key >= oldNode.keyArray[mid] THEN mid + 2 ELSE mid + 1

\* the new page after the loop that moves slots mid+1 .. nodeOccupancy-1
NonLeafMovedTo(this, oldNode, mid) ==
    [BlankNonLeaf(this) EXCEPT
        !.keyArray = [i \in 0..(this.nodeOccupancy - 1) |->
                        IF i + mid + 1 < this.nodeOccupancy
                        THEN oldNode.keyArray[i + mid + 1] ELSE 0],
        !.pageNoArray = [i \in 0..this.nodeOccupancy |->
                        IF i + mid + 1 < this.nodeOccupancy
                        THEN oldNode.pageNoArray[i + mid + 1] ELSE 0]]

\* the old page after that loop
NonLeafMovedFrom(this, oldNode, mid) ==
    [oldNode EXCEPT
        !.keyArray = [i \in 0..(this.nodeOccupancy - 1) |->
                        IF i > mid THEN 0 ELSE oldNode.keyArray[i]],
        !.pageNoArray = [i \in 0..this.nodeOccupancy |->
                        IF i > mid /\ i < this.nodeOccupancy
                        THEN 0 ELSE oldNode.pageNoArray[i]]]

splitNonLeafNode(m, oldPageID, pair) ==
    LET newPageID == Len(m.pages) + 1
        m1 == AllocPage(m, BlankNonLeaf(m))
        old0 == AsNonLeaf(m, m1.pages[oldPageID])
        mid == NonLeafMid(m, old0, pair.key)
        new1 == NonLeafMovedTo(m, old0, mid)
        old1 == NonLeafMovedFrom(m, old0, mid)
        toOld == pair.key < new1.keyArray[0]
        ins == IF toOld THEN insertNodeNonLeaf(m, old1, pair)
                        ELSE insertNodeNonLeaf(m, new1, pair)
        old2 == IF toOld THEN ins.node ELSE old1
        new2 == IF toOld THEN new1 ELSE ins.node
        new3 == [new2 EXCEPT !.level = old2.level]
        \* oldNode->keyArray[mid] is read and zeroed, oldNode->pageNoArray[mid] zeroed
        midIn == mid \in 0..(m.nodeOccupancy - 1)
        middleRecord == PageKeyPair(newPageID, IF midIn THEN old2.keyArray[mid] ELSE 0)
        old3 == IF midIn
                THEN [old2 EXCEPT !.keyArray[mid] = 0, !.pageNoArray[mid] = 0]
                ELSE [old2 EXCEPT !.pageNoArray[mid] = 0]
        m2 == [SetPage(SetPage(m1, oldPageID, old3), newPageID, new3) EXCEPT
                  !.prop = PropTo(middleRecord),
                  !.fault = IF ins.oob \/ ~midIn THEN "oob" ELSE @]
        m3 == IF oldPageID = m2.rootPageNum
              THEN updateRoot(m2, m2.rootPageNum, middleRecord)
              ELSE m2
    IN  UnPinPage(UnPinPage(m3, oldPageID, TRUE), newPageID, TRUE)

(***************************************************************************)
(* insertEntryHelper, insertEntry: the set of outcomes of a call           *)
(***************************************************************************)
RECURSIVE ChildIndexStrict(_, _, _)
\* ChildIndex with keyArray[i - 1] > key as the test of the loop
ChildIndexStrict(node, i, key) ==
    IF i > 0 /\ node.keyArray[i - 1] > key THEN ChildIndexStrict(node, i - 1, key) ELSE i

RECURSIVE ChildIndex(_, _, _)
\* for (; i > 0 && node->keyArray[i - 1] >= key; --i) {}
ChildIndex(node, i, key) ==
    IF i > 0 /\ node.keyArray[i - 1] >= key THEN ChildIndex(node, i - 1, key) ELSE i

\* AfterChild without the unPinPage call of the branch in which the child
\* propagated nothing: C8 does not hold of an index that inserts this way
AfterChildKeepPin(r, currPageNum) ==
    LET node == AsNonLeaf(r, r.pages[currPageNum]) IN
    IF r.exc # "none" THEN {r}
    ELSE IF ~r.prop.null
    THEN IF node.pageNoArray[r.nodeOccupancy] = 0
         THEN { LET ins == insertNodeNonLeaf(r, node, pair)
                    r1 == [SetPage(r, currPageNum, ins.node) EXCEPT
                              !.prop = NullProp,
                              !.fault = IF ins.oob THEN "oob" ELSE @]
                IN  UnPinPage(r1, currPageNum, TRUE)
                : pair \in Deref(r.prop) }
         ELSE { FrameGone(splitNonLeafNode(r, currPageNum, pair))
                : pair \in Deref(r.prop) }
    ELSE {r}

\* AfterChild with isDirty = true where the child passed nothing up
AfterChildAlwaysDirty(r, currPageNum) ==
    LET node == AsNonLeaf(r, r.pages[currPageNum]) IN
    IF r.exc # "none" THEN {r}
    ELSE IF ~r.prop.null
    THEN IF node.pageNoArray[r.nodeOccupancy] = 0
         THEN { LET ins == insertNodeNonLeaf(r, node, pair)
                    r1 == [SetPage(r, currPageNum, ins.node) EXCEPT
                              !.prop = NullProp,
                              !.fault = IF ins.oob THEN "oob" ELSE @]
                IN  UnPinPage(r1, currPageNum, TRUE)
                : pair \in Deref(r.prop) }
         ELSE { FrameGone(splitNonLeafNode(r, currPageNum, pair))
                : pair \in Deref(r.prop) }
    ELSE {UnPinPage(r, currPageNum, TRUE)}

\* the part of insertEntryHelper after the recursive call returned r
AfterChild(r, currPageNum) ==
    LET node == AsNonLeaf(r, r.pages[currPageNum]) IN
    IF r.exc # "none" THEN {r}
    ELSE IF ~r.prop.null
    THEN IF node.pageNoArray[r.nodeOccupancy] = 0
         THEN { LET ins == insertNodeNonLeaf(r, node, pair)
                    r1 == [SetPage(r, currPageNum, ins.node) EXCEPT
                              !.prop = NullProp,
                              !.fault = IF ins.oob THEN "oob" ELSE @]
                IN  UnPinPage(r1, currPageNum, TRUE)
                : pair \in Deref(r.prop) }
         ELSE { FrameGone(splitNonLeafNode(r, currPageNum, pair))
                : pair \in Deref(r.prop) }
    ELSE {UnPinPage(r, currPageNum, FALSE)}

RECURSIVE insertEntryHelper(_, _, _, _)
insertEntryHelper(m, entryInsertPair, currPageNum, isLeafNode) ==
    LET node == IF isLeafNode THEN AsLeaf(m, m.pages[currPageNum])
                              ELSE AsNonLeaf(m, m.pages[currPageNum])
    IN
    IF Runaway(m) THEN {[m EXCEPT !.fault = "hang"]}
    ELSE IF ~isLeafNode
    THEN LET i == ChildIndex(node, SkipEmptyPageNo(node, m.nodeOccupancy),
                             entryInsertPair.key)
             childPageNo == IF i >= 0 THEN node.pageNoArray[i] ELSE 0
             m1 == IF i >= 0 THEN ReadPage(m, childPageNo)
                             ELSE [m EXCEPT !.fault = "oob"]
         IN  IF m1.exc # "none" \/ m1.fault # "none"
             THEN {m1}
             ELSE UNION { AfterChild(r, currPageNum)
                          : r \in insertEntryHelper(m1, entryInsertPair,
                                                    childPageNo, node.level # 0) }
    ELSE IF node.ridArray[m.leafOccupancy - 1].page_number = 0
         THEN LET ins == insertNodeLeaf(m, node, entryInsertPair)
                  m1 == [SetPage(m, currPageNum, ins.node) EXCEPT
                            !.prop = NullProp,
                            !.fault = IF ins.oob THEN "oob" ELSE @]
              IN  {UnPinPage(m1, currPageNum, TRUE)}
         ELSE {FrameGone(splitLeafNode(m, currPageNum, entryInsertPair))}

insertEntry(m, key, rid) ==
    LET m1 == ReadPage(m, m.rootPageNum) IN
    IF m1.exc # "none" THEN {m1}
    ELSE insertEntryHelper(m1, RIDKeyPair(rid, key), m1.rootPageNum,
                           ~(m1.rootPageNum # m1.initial))

(***************************************************************************)
(* endScan, startScan, scanNext                                            *)
(***************************************************************************)
Throw(m, e) == [m EXCEPT !.exc = e]

\* endScan without the test of scanExecuting
endScanUnguarded(m) ==
    [UnPinPage([m EXCEPT !.currentPageData = 0], m.currentPageNum, FALSE)
       EXCEPT !.scanExecuting = FALSE, !.currentPageNum = -1, !.nextEntry = -1]

\* endScan with unPinPage(file, currentPageNum, true)
endScanDirty(m) ==
    IF ~m.scanExecuting
    THEN Throw(m, "ScanNotInitialized")
    ELSE [UnPinPage([m EXCEPT !.currentPageData = 0], m.currentPageNum, TRUE)
            EXCEPT !.scanExecuting = FALSE, !.currentPageNum = -1, !.nextEntry = -1]

\* currentPageNum = -1 stands for the PageId that (PageId)-1 is: no page of the file
endScan(m) ==
    IF ~m.scanExecuting
    THEN Throw(m, "ScanNotInitialized")
    ELSE [UnPinPage([m EXCEPT !.currentPageData = 0], m.currentPageNum, FALSE)
            EXCEPT !.scanExecuting = FALSE, !.currentPageNum = -1, !.nextEntry = -1]

\* the test both startScan and scanNext apply to a key
InRange(m, key) ==
    \/ m.lowOp = GT /\ m.highOp = LTE /\ key <= m.highValInt /\ key > m.lowValInt
    \/ m.lowOp = GTE /\ m.highOp = LTE /\ key <= m.highValInt /\ key >= m.lowValInt
    \/ m.lowOp = GTE /\ m.highOp = LT /\ key < m.highValInt /\ key >= m.lowValInt
    \/ m.lowOp = GT /\ m.highOp = LT /\ key < m.highValInt /\ key > m.lowValInt

PastHigh(m, key) ==
    \/ m.highOp = LT /\ key >= m.highValInt
    \/ m.highOp = LTE /\ key > m.highValInt

\* readPage(file, currentPageNum, currentPageData) after currentPageNum = p
MoveTo(m, p) ==
    LET m1 == ReadPage([m EXCEPT !.currentPageNum = p], p) IN
    IF m1.exc # "none" THEN m1 ELSE [m1 EXCEPT !.currentPageData = p]

RECURSIVE ScanChildIndexZeroEmpty(_, _, _)
\* ScanChildIndex with keyArray[index] != 0 as the test for a slot that holds a key
ScanChildIndexZeroEmpty(this, node, index) ==
    IF /\ index < this.nodeOccupancy
       /\ node.keyArray[index] <= this.lowValInt
       /\ node.keyArray[index] # 0
    THEN ScanChildIndexZeroEmpty(this, node, index + 1)
    ELSE index

RECURSIVE ScanChildIndex(_, _, _)
\* while (index < nodeOccupancy && keyArray[index] <= lowValInt &&
\*        pageNoArray[index + 1] != 0) index++;
ScanChildIndex(this, node, index) ==
    IF /\ index < this.nodeOccupancy
       /\ node.keyArray[index] <= this.lowValInt
       /\ node.pageNoArray[index + 1] # 0
    THEN ScanChildIndex(this, node, index + 1)
    ELSE index

RECURSIVE DescendUnpinAfter(_)
\* Descend with the unPinPage call after the readPage call of the child
DescendUnpinAfter(m) ==
    LET current == AsNonLeaf(m, m.pages[m.currentPageData])
        index == ScanChildIndex(m, current, 0)
        m0 == MoveTo(m, current.pageNoArray[index])
        m1 == IF m0.exc # "none" THEN m0 ELSE UnPinPage(m0, m.currentPageNum, FALSE)
    IN  IF Runaway(m) THEN [m EXCEPT !.fault = "hang"]
        ELSE IF m1.exc # "none" \/ current.level = 1 THEN m1 ELSE DescendUnpinAfter(m1)

RECURSIVE Descend(_)
\* the loop of startScan that walks from a non-leaf root to a leaf
Descend(m) ==
    LET current == AsNonLeaf(m, m.pages[m.currentPageData])
        index == ScanChildIndex(m, current, 0)
        m1 == MoveTo(UnPinPage(m, m.currentPageNum, FALSE),
                     current.pageNoArray[index])
    IN  IF Runaway(m) THEN [m EXCEPT !.fault = "hang"]
        ELSE IF m1.exc # "none" \/ current.level = 1 THEN m1 ELSE Descend(m1)

RECURSIVE FindFirst(_)
RECURSIVE LeafLoop(_, _, _, _)
\* one pass of while (!found): current is read from currentPageData
FindFirst(m) ==
    LET current == AsLeaf(m, m.pages[m.currentPageData]) IN
    IF Runaway(m) THEN [m EXCEPT !.fault = "hang"]
    ELSE IF current.ridArray[0].page_number = 0
    THEN Throw(UnPinPage(m, m.currentPageNum, FALSE), "NoSuchKeyFound")
    ELSE LeafLoop(m, current, 0, FALSE)

\* for (int i = 0; i < leafOccupancy; i++) over the leaf read at the top of the pass
LeafLoop(m, current, i, nextNull) ==
    IF i >= m.leafOccupancy \/ nextNull
    THEN FindFirst(m)
    ELSE LET key == current.keyArray[i]
             nn == i < m.leafOccupancy - 1 /\ current.ridArray[i + 1].page_number = 0
         IN  IF InRange(m, key)
             THEN [m EXCEPT !.scanExecuting = TRUE, !.nextEntry = i]
             ELSE IF PastHigh(m, key)
             THEN Throw(UnPinPage(m, m.currentPageNum, FALSE), "NoSuchKeyFound")
             ELSE IF i = m.leafOccupancy - 1 \/ nn
             THEN LET m1 == UnPinPage(m, m.currentPageNum, FALSE) IN
                  IF current.rightSibPageNo = 0
                  THEN Throw(m1, "NoSuchKeyFound")
                  ELSE LET m2 == MoveTo(m1, current.rightSibPageNo) IN
                       IF m2.exc # "none" THEN m2
                       ELSE LeafLoop(m2, current, i + 1, nn)
             ELSE LeafLoop(m, current, i + 1, nn)

\* CheckScanArgs with the range test ahead of the operator test
CheckScanArgsRangeFirst(this) ==
    IF this.lowValInt > this.highValInt
    THEN "BadScanrange"
    ELSE IF ~((this.lowOp = GT \/ this.lowOp = GTE)
              /\ (this.highOp = LT \/ this.highOp = LTE))
    THEN "BadOpcodes"
    ELSE "none"

\* CheckScanArgs with lowValInt >= highValInt as the range test
CheckScanArgsInclusive(this) ==
    IF ~((this.lowOp = GT \/ this.lowOp = GTE)
         /\ (this.highOp = LT \/ this.highOp = LTE))
    THEN "BadOpcodes"
    ELSE IF this.lowValInt >= this.highValInt
    THEN "BadScanrange"
    ELSE "none"

\* the two argument tests of startScan: the exception to throw, or "none"
CheckScanArgs(this) ==
    IF ~((this.lowOp = GT \/ this.lowOp = GTE)
         /\ (this.highOp = LT \/ this.highOp = LTE))
    THEN "BadOpcodes"
    ELSE IF this.lowValInt > this.highValInt
    THEN "BadScanrange"
    ELSE "none"

\* startScan without the endScan call for a scan that is executing
startScanKeepScan(m, lowVal, lowOpParm, highVal, highOpParm) ==
    LET m1 == [m EXCEPT !.lowValInt = lowVal, !.highValInt = highVal,
                        !.lowOp = lowOpParm, !.highOp = highOpParm]
    IN  IF CheckScanArgs(m1) # "none"
        THEN Throw(m1, CheckScanArgs(m1))
        ELSE LET m2 == MoveTo(m1, m1.rootPageNum)
                 m3 == IF m2.exc = "none" /\ m2.initial # m2.currentPageNum
                       THEN Descend(m2) ELSE m2
             IN  IF m3.exc # "none" \/ m3.fault # "none" THEN m3 ELSE FindFirst(m3)

\* startScan: one call, from the test of scanExecuting to the return or throw
startScan(m, lowVal, lowOpParm, highVal, highOpParm) ==
    LET m0 == IF m.scanExecuting THEN endScan(m) ELSE m
        m1 == [m0 EXCEPT !.lowValInt = lowVal, !.highValInt = highVal,
                         !.lowOp = lowOpParm, !.highOp = highOpParm]
    IN  IF CheckScanArgs(m1) # "none"
        THEN Throw(m1, CheckScanArgs(m1))
        ELSE LET m2 == MoveTo(m1, m1.rootPageNum)
                 m3 == IF m2.exc = "none" /\ m2.initial # m2.currentPageNum
                       THEN Descend(m2) ELSE m2
             IN  IF m3.exc # "none" \/ m3.fault # "none" THEN m3 ELSE FindFirst(m3)

\* a LeafNodeInt read of a frame that no longer holds the bytes of the leaf
StaleRid == [page_number |-> 1, slot_number |-> 0]
StaleLeaves(this) ==
    {[BlankLeaf(this) EXCEPT
         !.ridArray = [i \in 0..(this.leafOccupancy - 1) |-> StaleRid]]}

\* what a read through currentPageData can find: the page it was read for while
\* the index holds a pin on it; once that pin is released the paging layer may
\* have given the frame to other bytes
Frame(m) ==
    IF m.pinCnt[m.currentPageData] > 0
    THEN {AsLeaf(m, m.pages[m.currentPageData])}
    ELSE {AsLeaf(m, m.pages[m.currentPageData])} \cup StaleLeaves(m)

\* the part of scanNext that tests keyArray[nextEntry] of the leaf current
NextOnLeaf(m, current) ==
    IF InRange(m, current.keyArray[m.nextEntry])
    THEN [m EXCEPT !.out = <<[key |-> current.keyArray[m.nextEntry],
                              rid |-> current.ridArray[m.nextEntry]]>>,
                   !.nextEntry = @ + 1]
    ELSE Throw(m, "IndexScanCompleted")

\* scanNext of an open scan, current being what the read of currentPageData found
scanNextOn(m, current) ==
    IF \/ current.ridArray[m.nextEntry].page_number = 0
       \/ m.nextEntry = m.leafOccupancy - 1
    THEN LET m1 == UnPinPage(m, m.currentPageNum, FALSE) IN
         IF current.rightSibPageNo = 0
         THEN Throw(m1, "IndexScanCompleted")
         ELSE LET m2 == MoveTo(m1, current.rightSibPageNo) IN
              IF m2.exc # "none" THEN m2
              ELSE NextOnLeaf([m2 EXCEPT !.nextEntry = 0],
                              AsLeaf(m2, m2.pages[m2.currentPageData]))
    ELSE NextOnLeaf(m, current)

\* the set of outcomes of a scanNext call
scanNext(m) ==
    IF ~m.scanExecuting
    THEN {Throw(m, "ScanNotInitialized")}
    ELSE {scanNextOn(m, current) : current \in Frame(m)}

(***************************************************************************)
(* BTreeIndex::BTreeIndex, the branch that creates the index file and      *)
(* builds it from the base relation.  Tuple j of the relation has the key  *)
(* FirstRelationKey + j - 1 and the record id (j, 1).                      *)
(***************************************************************************)
\* strncpy(dest, src, n): the first n characters of src, zero bytes after its end
strncpy(src, n) == [i \in 1..n |-> IF i <= Len(src) THEN src[i] ELSE 0]

TupleKey(j) == FirstRelationKey + j - 1
TupleRid(j) == [page_number |-> j, slot_number |-> 1]

\* the handle and the file after the two allocPage calls and the two unPinPage
\* calls, for the fanouts leafOcc and nodeOcc
Created(leafOcc, nodeOcc, args) ==
    LET m0 == [pages |-> <<>>, pinCnt |-> <<>>,
               headerPageNum |-> 0, rootPageNum |-> 0, initial |-> 0,
               leafOccupancy |-> leafOcc, nodeOccupancy |-> nodeOcc,
               scanExecuting |-> FALSE, nextEntry |-> 0,
               currentPageNum |-> 0, currentPageData |-> 0,
               lowValInt |-> 0, highValInt |-> 0, lowOp |-> LT, highOp |-> LT,
               exc |-> "none", fault |-> "none", log |-> <<>>, prop |-> NullProp,
               out |-> <<>>]
        m1 == [AllocPage(m0, BlankMeta) EXCEPT !.headerPageNum = Len(m0.pages) + 1]
        m2 == [AllocPage(m1, BlankLeaf(m1)) EXCEPT
                  !.rootPageNum = Len(m1.pages) + 1,
                  !.initial = Len(m1.pages) + 1]
        m3 == SetPage(m2, m2.headerPageNum,
                      [relationName |-> strncpy(args.relationName, NameSize),
                       attrByteOffset |-> args.attrByteOffset,
                       attrType |-> args.attrType,
                       rootPageNo |-> m2.rootPageNum])
    IN  UnPinPage(UnPinPage(m3, m3.headerPageNum, TRUE), m3.rootPageNum, TRUE)

RECURSIVE BuildFrom(_, _, _)
\* the loop over fileScan.scanNext: tuples j .. n are still to insert
BuildFrom(b, j, n) ==
    IF j > n \/ b.m.fault # "none" \/ b.m.exc # "none"
    THEN {b}
    ELSE UNION { BuildFrom([m |-> [r EXCEPT !.log = <<>>, !.prop = NullProp],
                            done |-> IF r.exc = "none" THEN j ELSE b.done],
                           j + 1, n)
                 : r \in insertEntry(b.m, TupleKey(j), TupleRid(j)) }

Entry(k, r) == [key |-> k, rid |-> r]

RECURSIVE TupleBag(_)
TupleBag(n) ==
    IF n = 0 THEN EmptyBag
    ELSE TupleBag(n - 1) (+) SetToBag({Entry(TupleKey(n), TupleRid(n))})

\* the handle a successful open leaves: an open that throws leaves none
InitOf(leafOccs, nodeOccs, sizes, argsSet) ==
    /\ \E leafOcc \in leafOccs, nodeOcc \in nodeOccs, n \in sizes, args \in argsSet :
        \E b \in BuildFrom([m |-> Created(leafOcc, nodeOcc, args), done |-> 0], 1, n) :
          /\ b.m.exc = "none"
          /\ life = [handle |-> "open", created |-> args, opened |-> args,
                     opens |-> 0, initial |-> b.m.initial, inserts |-> 0]
          /\ leafOccupancy = leafOcc
          /\ nodeOccupancy = nodeOcc
          /\ built = n
          /\ headerPageNum = b.m.headerPageNum
          /\ initial = b.m.initial
          /\ pages = b.m.pages
          /\ pinCnt = b.m.pinCnt
          /\ rootPageNum = b.m.rootPageNum
          /\ fault = b.m.fault
          /\ inserted = TupleBag(b.done)
    /\ scanExecuting = FALSE
    /\ nextEntry = 0
    /\ currentPageNum = 0
    /\ currentPageData = 0
    /\ lowValInt = 0
    /\ highValInt = 0
    /\ lowOp = LT
    /\ highOp = LT
    /\ nPublic = 0
    /\ returned = <<>>
    /\ scanDirty = FALSE
    /\ scanArgs = <<>>
    /\ last = [op |-> "open", exc |-> "none", log |-> <<>>, out |-> <<>>]

\* the constructor arguments of the runs that keep one handle
DefaultArgs == [relationName |-> <<114>>, attrByteOffset |-> 0, attrType |-> INTEGER]

Init == InitOf(LeafFanouts, NodeFanouts, 0..MaxRelation, {DefaultArgs})

(***************************************************************************)
(* The public calls on the open handle.                                    *)
(***************************************************************************)
\* the handle, the file and the pins as the call that ended in r leaves them
Install(r, op) ==
    /\ pages' = r.pages
    /\ pinCnt' = r.pinCnt
    /\ rootPageNum' = r.rootPageNum
    /\ scanExecuting' = r.scanExecuting
    /\ nextEntry' = r.nextEntry
    /\ currentPageNum' = r.currentPageNum
    /\ currentPageData' = r.currentPageData
    /\ lowValInt' = r.lowValInt
    /\ highValInt' = r.highValInt
    /\ lowOp' = r.lowOp
    /\ highOp' = r.highOp
    /\ fault' = r.fault
    /\ last' = [op |-> op, exc |-> r.exc, log |-> r.log, out |-> r.out]
    /\ UNCHANGED <<headerPageNum, initial, leafOccupancy, nodeOccupancy, built, life>>

\* the record id of the next tuple of the relation
NextRid == [page_number |-> BagCardinality(inserted) + 1, slot_number |-> 1]

InsertEntry ==
    /\ life.handle = "open"
    /\ fault = "none"
    /\ nPublic < (IF built = 0 THEN MaxInserts ELSE MaxInsertsAfterBuild)
    /\ \E key \in Keys :
         \E r \in insertEntry(Machine, key, NextRid) :
            /\ Install(r, "insertEntry")
            /\ inserted' = IF r.exc = "none"
                           THEN inserted (+) SetToBag({Entry(key, NextRid)})
                           ELSE inserted
    /\ nPublic' = nPublic + 1
    /\ scanDirty' = TRUE
    /\ returned' = <<>>
    /\ UNCHANGED scanArgs

OpPairs == {<<GT, LT>>, <<GT, LTE>>, <<GTE, LT>>, <<GTE, LTE>>, <<LT, LTE>>, <<GT, GT>>}
\* the bounds a startScan call passes
ScanVals == 0..MaxKey

StartScan ==
    /\ life.handle = "open"
    /\ fault = "none"
    /\ \E lowVal \in ScanVals, highVal \in ScanVals, ops \in OpPairs :
         \E r \in {startScan(Machine, lowVal, ops[1], highVal, ops[2])} :
         /\ Install(r, "startScan")
         /\ scanArgs' = IF r.exc = "none"
                         THEN <<lowVal, ops[1], highVal, ops[2]>> ELSE <<>>
    /\ returned' = <<>>
    /\ scanDirty' = FALSE
    /\ UNCHANGED <<inserted, nPublic>>

ScanNext ==
    /\ life.handle = "open"
    /\ fault = "none"
    /\ \E r \in scanNext(Machine) :
         /\ Install(r, "scanNext")
         /\ returned' = IF scanDirty THEN <<>> ELSE returned \o r.out
    /\ UNCHANGED <<inserted, nPublic, scanDirty, scanArgs>>

EndScan ==
    /\ life.handle = "open"
    /\ fault = "none"
    /\ \E r \in {endScan(Machine)} :
         /\ Install(r, "endScan")
         /\ scanArgs' = IF r.exc = "none" THEN <<>> ELSE scanArgs
    /\ UNCHANGED <<inserted, nPublic, returned, scanDirty>>

Next == InsertEntry \/ StartScan \/ ScanNext \/ EndScan

Spec == Init /\ [][Next]_vars

(***************************************************************************)
(* The handle's life: the destructor, and the constructor on the index     *)
(* file that exists (the file name is relationName.attrByteOffset, so the  *)
(* call that finds the file passes the relation name and the offset the    *)
(* file was created with).                                                 *)
(***************************************************************************)
\* constructor calls on the existing file in one run
MaxOpens == 1

Datatypes == {INTEGER, DOUBLE, STRINGTYPE}

\* the order of the bytes of an int in the page
ByteOrders == {"little", "big"}

IntBytes(v, order) ==
    IF order = "little" THEN WordBytes(v)
    ELSE [i \in 1..4 |-> WordBytes(v)[5 - i]]

\* the bytes of an IndexMetaInfo from relationName[0] on
MetaBytes(meta, order) ==
    meta.relationName \o IntBytes(meta.attrByteOffset, order)
        \o IntBytes(meta.attrType, order) \o IntBytes(meta.rootPageNo, order)

RECURSIVE CStr(_)
\* the string a char pointer to bytes stands for: the bytes before the first 0
CStr(bytes) ==
    IF bytes = <<>> \/ Head(bytes) = 0 THEN <<>>
    ELSE <<Head(bytes)>> \o CStr(Tail(bytes))

\* bufMgr->flushFile(file)
FlushFile(m) == [m EXCEPT !.log = Append(@, Ev("flush", 0, FALSE))]

\* ~BTreeIndex
Destructor(m) == [FlushFile(m) EXCEPT !.scanExecuting = FALSE]

\* the handle as the constructor finds it: the members it does not assign hold
\* what the memory held, of which initial is read later
NewHandle(m, garbage) ==
    [m EXCEPT !.scanExecuting = FALSE, !.initial = garbage,
              !.nextEntry = 0, !.currentPageNum = 0, !.currentPageData = 0,
              !.lowValInt = 0, !.highValInt = 0, !.lowOp = LT, !.highOp = LT]

\* BTreeIndex::BTreeIndex, the branch for the file that exists
OpenExisting(m, args, order) ==
    LET m1 == ReadPage([m EXCEPT !.headerPageNum = 1], 1)
        metaInfo == AsMeta(m1.pages[1])
        m2 == [m1 EXCEPT !.rootPageNum = metaInfo.rootPageNo]
    IN  IF \/ args.relationName # CStr(MetaBytes(metaInfo, order))
           \/ args.attrByteOffset # metaInfo.attrByteOffset
           \/ args.attrType # metaInfo.attrType
        THEN Throw(m2, "BadIndexInfo")
        ELSE UnPinPage(m2, m2.headerPageNum, FALSE)

\* what the memory of a new handle may hold where initial is
GarbageInitial(m) == {0, AsMeta(m.pages[1]).rootPageNo}

\* the handle members and the paging layer as the call that ended in r leaves them
InstallHandle(r, op) ==
    /\ pages' = r.pages
    /\ pinCnt' = r.pinCnt
    /\ headerPageNum' = r.headerPageNum
    /\ rootPageNum' = r.rootPageNum
    /\ initial' = r.initial
    /\ scanExecuting' = r.scanExecuting
    /\ nextEntry' = r.nextEntry
    /\ currentPageNum' = r.currentPageNum
    /\ currentPageData' = r.currentPageData
    /\ lowValInt' = r.lowValInt
    /\ highValInt' = r.highValInt
    /\ lowOp' = r.lowOp
    /\ highOp' = r.highOp
    /\ fault' = r.fault
    /\ last' = [op |-> op, exc |-> r.exc, log |-> r.log, out |-> r.out]
    /\ returned' = <<>>
    /\ scanArgs' = <<>>
    /\ scanDirty' = FALSE
    /\ UNCHANGED <<leafOccupancy, nodeOccupancy, built, inserted, nPublic>>

Close ==
    /\ life.handle = "open"
    /\ fault = "none"
    /\ \E r \in {Destructor(Machine)} : InstallHandle(r, "close")
    /\ life' = [life EXCEPT !.handle = "closed"]

Open ==
    /\ life.handle # "open"
    /\ life.opens < MaxOpens
    /\ \E attrType \in Datatypes, order \in ByteOrders, garbage \in GarbageInitial(Machine) :
         LET args == [life.created EXCEPT !.attrType = attrType] IN
         \E r \in {OpenExisting(NewHandle(Machine, garbage), args, order)} :
            /\ InstallHandle(r, "open")
            /\ life' = [life EXCEPT
                          !.handle = IF r.exc = "none" THEN "open" ELSE "none",
                          !.opened = args,
                          !.opens = @ + 1,
                          !.inserts = nPublic]

\* relation sizes, names and offsets of the runs that close and open the handle
LifeSizes == {1, 4}
LifeArgs ==
    {DefaultArgs,
     [relationName |-> [i \in 1..NameSize |-> 114], attrByteOffset |-> 4,
      attrType |-> INTEGER],
     [relationName |-> [i \in 1..(NameSize + 1) |-> 114], attrByteOffset |-> 0,
      attrType |-> INTEGER]}

InitLife == InitOf({3}, {4}, LifeSizes, LifeArgs)

NextLife == Next \/ Close \/ Open

SpecLife == InitLife /\ [][NextLife]_vars

(***************************************************************************)
(* insertEntry with record ids in any order: the caller passes the address *)
(* of any tuple that is not in the index yet.  The runs start from the     *)
(* index of an empty relation.                                             *)
(***************************************************************************)
\* public insertEntry calls in one run
MaxRidInserts == 4
\* page numbers of the record ids a call may pass
MaxRidPage == 4

RidChoices == {[page_number |-> n, slot_number |-> 1] : n \in 1..MaxRidPage}
RidKeys == 0..MaxKey

InitRids == InitOf({3}, NodeFanouts, {0}, {DefaultArgs})

InsertEntryAt ==
    /\ life.handle = "open"
    /\ fault = "none"
    /\ nPublic < MaxRidInserts
    /\ \E key \in RidKeys :
         \E rid \in {x \in RidChoices : \A e \in BagToSet(inserted) : e.rid # x} :
           \E r \in insertEntry(Machine, key, rid) :
              /\ Install(r, "insertEntry")
              /\ inserted' = IF r.exc = "none"
                             THEN inserted (+) SetToBag({Entry(key, rid)})
                             ELSE inserted
    /\ nPublic' = nPublic + 1
    /\ scanDirty' = TRUE
    /\ returned' = <<>>
    /\ UNCHANGED scanArgs

NextRids == InsertEntryAt

SpecRids == InitRids /\ [][NextRids]_vars

(***************************************************************************)
(* The index under insertEntry calls alone, with enough calls after the    *)
(* build to fill and split a leaf below two levels of inner pages.         *)
(***************************************************************************)
MaxDeepInserts == 3

InsertEntryDeep ==
    /\ life.handle = "open"
    /\ fault = "none"
    /\ nPublic < MaxDeepInserts
    /\ \E key \in Keys :
         \E r \in insertEntry(Machine, key, NextRid) :
            /\ Install(r, "insertEntry")
            /\ inserted' = IF r.exc = "none"
                           THEN inserted (+) SetToBag({Entry(key, NextRid)})
                           ELSE inserted
    /\ nPublic' = nPublic + 1
    /\ scanDirty' = TRUE
    /\ returned' = <<>>
    /\ UNCHANGED scanArgs

NextDeep == InsertEntryDeep

SpecDeep == Init /\ [][NextDeep]_vars

(***************************************************************************)
(* BTreeIndex::BTreeIndex, the branch that creates the index file, step by *)
(* step: one step per tuple that fileScan.scanNext hands out, one step for *)
(* the EndOfFileException.  The relation is a run of tuples with ascending *)
(* keys (built counts them) followed by at most MaxTail tuples with any    *)
(* key of Keys (nPublic counts them).  life.handle is "building" while the *)
(* constructor runs and "none" when it threw.                              *)
(***************************************************************************)
MaxTail == 1

InitBuild ==
    /\ \E leafOcc \in LeafFanouts, nodeOcc \in NodeFanouts :
        \E m \in {Created(leafOcc, nodeOcc, DefaultArgs)} :
          /\ life = [handle |-> "building", created |-> DefaultArgs,
                     opened |-> DefaultArgs, opens |-> 0, initial |-> m.initial,
                     inserts |-> 0]
          /\ leafOccupancy = leafOcc
          /\ nodeOccupancy = nodeOcc
          /\ headerPageNum = m.headerPageNum
          /\ initial = m.initial
          /\ pages = m.pages
          /\ pinCnt = m.pinCnt
          /\ rootPageNum = m.rootPageNum
          /\ fault = m.fault
          /\ last = [op |-> "open", exc |-> "none", log |-> m.log, out |-> <<>>]
    /\ built = 0
    /\ inserted = EmptyBag
    /\ scanExecuting = FALSE
    /\ nextEntry = 0
    /\ currentPageNum = 0
    /\ currentPageData = 0
    /\ lowValInt = 0
    /\ highValInt = 0
    /\ lowOp = LT
    /\ highOp = LT
    /\ nPublic = 0
    /\ returned = <<>>
    /\ scanDirty = FALSE
    /\ scanArgs = <<>>

\* fileScan.scanNext(rid) returned a tuple: insertEntry(record + attrByteOffset, rid);
\* an exception of insertEntry leaves the constructor
BuildInsert ==
    /\ life.handle = "building"
    /\ fault = "none"
    /\ \E tail \in BOOLEAN :
         /\ IF tail THEN nPublic < MaxTail ELSE (nPublic = 0 /\ built < MaxRelation)
         /\ \E key \in (IF tail THEN Keys ELSE {TupleKey(built + 1)}) :
              \E r \in insertEntry(Machine, key, TupleRid(built + nPublic + 1)) :
                 /\ pages' = r.pages
                 /\ pinCnt' = r.pinCnt
                 /\ rootPageNum' = r.rootPageNum
                 /\ fault' = r.fault
                 /\ last' = [op |-> "open", exc |-> r.exc, log |-> r.log, out |-> <<>>]
                 /\ inserted' = IF r.exc = "none"
                                THEN inserted (+) SetToBag({Entry(key, TupleRid(built + nPublic + 1))})
                                ELSE inserted
                 /\ life' = [life EXCEPT
                               !.handle = IF r.exc = "none" THEN "building" ELSE "none"]
         /\ built' = IF tail THEN built ELSE built + 1
         /\ nPublic' = IF tail THEN nPublic + 1 ELSE nPublic
    /\ UNCHANGED <<headerPageNum, initial, leafOccupancy, nodeOccupancy,
                   scanExecuting, nextEntry, currentPageNum, currentPageData,
                   lowValInt, highValInt, lowOp, highOp,
                   scanDirty, returned, scanArgs>>

\* fileScan.scanNext(rid) threw EndOfFileException: catch, flushFile, return
BuildEnd ==
    /\ life.handle = "building"
    /\ fault = "none"
    /\ \E r \in {FlushFile(Machine)} :
         /\ last' = [op |-> "open", exc |-> r.exc, log |-> r.log, out |-> <<>>]
         /\ life' = [life EXCEPT !.handle = "open"]
    /\ UNCHANGED <<pages, pinCnt, headerPageNum, rootPageNum, initial,
                   leafOccupancy, nodeOccupancy, scanExecuting, nextEntry,
                   currentPageNum, currentPageData, lowValInt, highValInt,
                   lowOp, highOp, fault, inserted, nPublic, returned,
                   scanDirty, scanArgs, built>>

NextBuild == BuildInsert \/ BuildEnd

SpecBuild == InitBuild /\ [][NextBuild]_vars

(***************************************************************************)
(* What the properties below speak of.                                     *)
(***************************************************************************)
\* key satisfies the two bounds of a = <<low, lowOp, high, highOp>>
Satisfies(a, key) ==
    /\ IF a[2] = GT THEN key > a[1] ELSE key >= a[1]
    /\ IF a[4] = LT THEN key < a[3] ELSE key <= a[3]

\* the entries the index stores
Stored == BagToSet(inserted)

RECURSIVE RidBag(_)
\* the record ids of a sequence of returned entries, with their multiplicities
RidBag(seq) ==
    IF seq = <<>> THEN EmptyBag
    ELSE RidBag(Tail(seq)) (+) SetToBag({Head(seq).rid})

\* the record ids of the stored entries, with their multiplicities
StoredRids ==
    LET RECURSIVE Sum(_)
        Sum(S) == IF S = {} THEN EmptyBag
                  ELSE LET e == CHOOSE x \in S : TRUE
                       IN  [r \in {e.rid} |-> inserted[e]] (+) Sum(S \ {e})
    IN  Sum(Stored)

\* number of events of kind ev on page p among the first n events of log
RECURSIVE Count(_, _, _, _)
Count(log, n, ev, p) ==
    IF n = 0 THEN 0
    ELSE Count(log, n - 1, ev, p)
         + (IF log[n].ev = ev /\ log[n].page = p THEN 1 ELSE 0)

TotalPins == LET RECURSIVE Sum(_)
                 Sum(n) == IF n = 0 THEN 0 ELSE pinCnt[n] + Sum(n - 1)
             IN  Sum(Len(pinCnt))

IsLeafPage(p) == p \in 1..Len(pages) /\ "ridArray" \in DOMAIN pages[p]

\* the scan that just ended was opened over the whole key range of the index
\* and no insertEntry call came after it was opened
FullScanDone ==
    /\ last.op = "scanNext"
    /\ last.exc = "IndexScanCompleted"
    /\ ~scanDirty
    /\ scanArgs # <<>>
    /\ scanArgs[2] = GTE
    /\ scanArgs[4] = LTE
    /\ \A e \in Stored : scanArgs[1] <= e.key /\ e.key <= scanArgs[3]

(***************************************************************************)
(* C1: after the entries of a multiset S were inserted, a scan opened with *)
(* startScan(min, GTE, max, LTE) and read with scanNext until              *)
(* IndexScanCompleted has returned exactly the record ids of S.            *)
(***************************************************************************)
C1_FullScanReturnsAll == FullScanDone => RidBag(returned) = StoredRids

(***************************************************************************)
(* C2: within one scan over an index that is not changed meanwhile, the    *)
(* entries scanNext returns have non-decreasing keys.                      *)
(***************************************************************************)
C2_ScanNonDecreasing ==
    \A i, j \in 1..Len(returned) : i < j => returned[i].key <= returned[j].key

(***************************************************************************)
(* C3: every record id scanNext returns is that of a stored entry whose    *)
(* key satisfies both bounds of the most recent successful startScan; it   *)
(* is never the record id of an empty slot.                                *)
(***************************************************************************)
C3_ReturnedIsStoredInRange ==
    (last.op = "scanNext" /\ last.out # <<>>) =>
        /\ scanArgs # <<>>
        /\ last.out[1].rid.page_number # 0
        /\ \E e \in Stored : e.rid = last.out[1].rid /\ Satisfies(scanArgs, e.key)

(***************************************************************************)
(* C4: for valid operators and low <= high, startScan raises               *)
(* NoSuchKeyFound if and only if no stored entry satisfies both bounds.    *)
(***************************************************************************)
C4_NoSuchKeyIff ==
    (/\ last.op = "startScan"
     /\ lowOp \in {GT, GTE}
     /\ highOp \in {LT, LTE}
     /\ lowValInt <= highValInt) =>
        (last.exc = "NoSuchKeyFound" <=>
            ~\E e \in Stored :
                Satisfies(<<lowValInt, lowOp, highValInt, highOp>>, e.key))

(***************************************************************************)
(* C5: the scanNext call that immediately follows a successful startScan   *)
(* returns a record; it does not raise IndexScanCompleted.                 *)
(***************************************************************************)
C5_FirstNextReturns ==
    [][(last.op = "startScan" /\ last.exc = "none" /\ last'.op = "scanNext")
          => (last'.exc = "none" /\ last'.out # <<>>)]_vars

(***************************************************************************)
(* C6: once scanNext has raised IndexScanCompleted, scanExecuting is false *)
(* and an endScan call that follows raises ScanNotInitialized.             *)
(***************************************************************************)
C6_CompletedScanIsClosed ==
    [][(last.op = "scanNext" /\ last.exc = "IndexScanCompleted")
          => /\ ~scanExecuting
             /\ last'.op = "endScan" => last'.exc = "ScanNotInitialized"]_vars

(***************************************************************************)
(* C7: between two calls, while scanExecuting is true the index holds      *)
(* exactly one pin, on the leaf currentPageNum; while it is false the      *)
(* index holds no pin.                                                     *)
(***************************************************************************)
C7_PinsBetweenCalls ==
    IF scanExecuting
    THEN /\ TotalPins = 1
         /\ IsLeafPage(currentPageNum)
         /\ pinCnt[currentPageNum] = 1
    ELSE TotalPins = 0

(***************************************************************************)
(* C8: when an insertEntry call has returned, the pins held are those held *)
(* before the call: every page the call pinned it unpinned exactly once,   *)
(* and it unpinned no page it had not pinned.                              *)
(***************************************************************************)
C8_InsertPinNeutral ==
    (last.op = "insertEntry" /\ last.exc = "none") =>
        \A p \in 0..Len(pages) :
            /\ Count(last.log, Len(last.log), "badunpin", p) = 0
            /\ Count(last.log, Len(last.log), "pin", p)
                 = Count(last.log, Len(last.log), "unpin", p)
            /\ \A n \in 0..Len(last.log) :
                 Count(last.log, n, "unpin", p) <= Count(last.log, n, "pin", p)

\* a public insertEntry call has split a leaf and a non-leaf node and has
\* put a new root above them, and has returned
C8_Witness ==
    /\ last.op = "insertEntry"
    /\ last.exc = "none"
    /\ Len(last.log) = 12
    /\ Count(last.log, Len(last.log), "pin", headerPageNum) = 1

(***************************************************************************)
(* C9: endScan either raises ScanNotInitialized or releases exactly one    *)
(* pin the index holds; it never unpins a page whose pin count is zero.    *)
(***************************************************************************)
C9_EndScanReleasesOnePin ==
    last.op = "endScan" =>
        \/ last.exc = "ScanNotInitialized" /\ last.log = <<>>
        \/ /\ last.exc = "none"
           /\ Len(last.log) = 1
           /\ last.log[1].ev = "unpin"

(***************************************************************************)
(* C10: after every public call, the root page id the meta page stores is  *)
(* the root page id the handle holds; a root split changes both.           *)
(***************************************************************************)
C10_MetaRootAgrees == pages[headerPageNum].rootPageNo = rootPageNum

\* a public insertEntry call has just split the root
C10_Witness ==
    /\ last.op = "insertEntry"
    /\ \E n \in 1..Len(last.log) :
          last.log[n].ev = "pin" /\ last.log[n].page = headerPageNum
    /\ rootPageNum # initial
    /\ pages[headerPageNum].rootPageNo # initial

IsLeafIn(pg, p) == p \in 1..Len(pg) /\ "ridArray" \in DOMAIN pg[p]
IsInnerIn(pg, p) == p \in 1..Len(pg) /\ "pageNoArray" \in DOMAIN pg[p]

\* the child page ids an inner page holds
ChildrenIn(pg, p) ==
    {pg[p].pageNoArray[i] : i \in DOMAIN pg[p].pageNoArray} \cap (1..Len(pg))

RECURSIVE ReachIn(_, _, _)
\* the pages reachable from page p through child page ids, p included
ReachIn(pg, p, fuel) ==
    IF fuel = 0 \/ ~IsInnerIn(pg, p) THEN {p}
    ELSE {p} \cup UNION {ReachIn(pg, q, fuel - 1) : q \in ChildrenIn(pg, p)}

\* the keys in the populated slots of leaf p, in slot order
LeafKeySeq(pg, p) ==
    LET used == {i \in DOMAIN pg[p].ridArray : pg[p].ridArray[i].page_number # 0}
        RECURSIVE From(_)
        From(i) == IF i \notin DOMAIN pg[p].ridArray THEN <<>>
                  ELSE (IF i \in used THEN <<pg[p].keyArray[i]>> ELSE <<>>) \o From(i + 1)
    IN  From(0)

LeafKeysIn(pg, p) == {LeafKeySeq(pg, p)[n] : n \in 1..Len(LeafKeySeq(pg, p))}

\* the keys stored in the leaves of the subtree of page p
SubtreeKeys(pg, p) ==
    UNION {LeafKeysIn(pg, q) : q \in {r \in ReachIn(pg, p, Len(pg)) : IsLeafIn(pg, r)}}

RECURSIVE LeftmostLeaf(_, _, _)
\* the leaf that child 0 of child 0 ... of page p is; 0 if there is none
LeftmostLeaf(pg, p, fuel) ==
    IF IsLeafIn(pg, p) THEN p
    ELSE IF fuel = 0 \/ ~IsInnerIn(pg, p) THEN 0
    ELSE LeftmostLeaf(pg, pg[p].pageNoArray[0], fuel - 1)

RECURSIVE SiblingChain(_, _, _)
\* the leaves met from leaf p on by following rightSibPageNo, at most fuel of them
SiblingChain(pg, p, fuel) ==
    IF fuel = 0 \/ ~IsLeafIn(pg, p) THEN <<>>
    ELSE <<p>> \o SiblingChain(pg, pg[p].rightSibPageNo, fuel - 1)

RECURSIVE ChainKeys(_, _)
\* the keys the leaves of chain hold, in the order a walk of the chain reads them
ChainKeys(pg, chain) ==
    IF chain = <<>> THEN <<>>
    ELSE LeafKeySeq(pg, Head(chain)) \o ChainKeys(pg, Tail(chain))

(***************************************************************************)
(* C19: in every inner page reachable from the root, for every separator   *)
(* key[i], every key stored in the subtree of child[i] is <= key[i] and    *)
(* every key stored in the subtree of child[i+1] is > key[i].              *)
(***************************************************************************)
C19_SeparatorsOrderSubtrees ==
    \A p \in ReachIn(pages, rootPageNum, Len(pages)) :
        IsInnerIn(pages, p) =>
            \A i \in 0..(nodeOccupancy - 1) :
                pages[p].pageNoArray[i + 1] # 0 =>
                    /\ \A k \in SubtreeKeys(pages, pages[p].pageNoArray[i]) :
                          k <= pages[p].keyArray[i]
                    /\ \A k \in SubtreeKeys(pages, pages[p].pageNoArray[i + 1]) :
                          k > pages[p].keyArray[i]

(***************************************************************************)
(* C20: following rightSibPageNo from the leftmost leaf visits every leaf  *)
(* of the file exactly once, ends at sibling id 0, and reads the stored    *)
(* keys in non-decreasing order over the whole chain.                      *)
(***************************************************************************)
C20_SiblingChainSorted ==
    LET first == LeftmostLeaf(pages, rootPageNum, Len(pages))
        chain == SiblingChain(pages, first, Len(pages) + 1)
        keys == ChainKeys(pages, chain)
    IN  /\ first # 0
        /\ Len(chain) <= Len(pages)
        /\ pages[chain[Len(chain)]].rightSibPageNo = 0
        /\ \A n, k \in 1..Len(chain) : n # k => chain[n] # chain[k]
        /\ {chain[n] : n \in 1..Len(chain)} = {q \in 1..Len(pages) : IsLeafIn(pages, q)}
        /\ \A n, k \in 1..Len(keys) : n < k => keys[n] <= keys[k]

\* operator< of two RIDKeyPair
RIDKeyPairLess(r1, r2) ==
    IF r1.key # r2.key
    THEN r1.key < r2.key
    ELSE r1.rid.page_number < r2.rid.page_number

(***************************************************************************)
(* C18: the populated entries of every leaf are sorted ascending by key,   *)
(* and entries with equal keys are ordered by record address, in whatever  *)
(* order the duplicates were inserted.                                     *)
(***************************************************************************)
C18_LeavesSortedByKeyThenRid ==
    \A p \in 1..Len(pages) :
        IsLeafIn(pages, p) =>
            \A i, j \in DOMAIN pages[p].ridArray :
                (/\ i < j
                 /\ pages[p].ridArray[i].page_number # 0
                 /\ pages[p].ridArray[j].page_number # 0)
                    => RIDKeyPairLess(RIDKeyPair(pages[p].ridArray[i], pages[p].keyArray[i]),
                                      RIDKeyPair(pages[p].ridArray[j], pages[p].keyArray[j]))

(***************************************************************************)
(* C11: closing the handle and opening a new one on the same file with the *)
(* same arguments changes nothing for a scan: on every index content, with *)
(* the root still the initial leaf or not, and for every range, startScan  *)
(* on the new handle ends as it does on the handle that created the file,  *)
(* at the same entry of the same leaf, so that the scan returns the same   *)
(* record ids in the same order.                                           *)
(***************************************************************************)
C11_ReopenTransparent ==
    [][(/\ life.handle = "open"
        /\ life.opens > 0
        /\ life.opened = life.created
        /\ nPublic = life.inserts
        /\ last'.op = "startScan")
          => LET ref == startScan([Machine EXCEPT !.initial = life.initial],
                                  lowValInt', lowOp', highValInt', highOp')
             IN  /\ fault' = "none"
                 /\ last'.exc = ref.exc
                 /\ last'.exc = "none" =>
                       /\ currentPageNum' = ref.currentPageNum
                       /\ nextEntry' = ref.nextEntry]_vars

(***************************************************************************)
(* C12: when the constructor fails with BadIndexInfo on a file that        *)
(* exists, the meta page it pinned is released, the index holds no pin,    *)
(* and no page was changed or unpinned dirty.                              *)
(***************************************************************************)
C12_BadIndexInfoLeavesNoPin ==
    [][(last'.op = "open" /\ last'.exc = "BadIndexInfo")
          => /\ pinCnt' = pinCnt
             /\ pages' = pages
             /\ \A n \in 1..Len(last'.log) : ~last'.log[n].dirty]_vars

(***************************************************************************)
(* C13: the constructor raises BadIndexInfo on a file that exists if and   *)
(* only if the relation name, the attribute offset or the attribute type   *)
(* it is passed differs from the one the file was created with; with the   *)
(* arguments of the creation it succeeds for names of every length, also   *)
(* of 20 characters and more.                                              *)
(***************************************************************************)
C13_BadIndexInfoIff ==
    (last.op = "open" /\ life.opens > 0)
        => (last.exc = "BadIndexInfo" <=> life.opened # life.created)

(***************************************************************************)
(* C14: the destructor never raises and leaves no page of the index        *)
(* pinned: a scan that is active is ended and its leaf unpinned before the *)
(* file is flushed.                                                        *)
(***************************************************************************)
C14_CloseLeavesNoPin ==
    last.op = "close" =>
        /\ last.exc = "none"
        /\ \A p \in 1..Len(pinCnt) : pinCnt[p] = 0

(***************************************************************************)
(* C21: zero appears only in the tail of an array: in every inner page     *)
(* reachable from the root no zero child page id precedes a non-zero one,  *)
(* and in every leaf the populated entries form a prefix after which every *)
(* key and every rid page number is zero.                                  *)
(***************************************************************************)
C21_ZeroOnlyInTail ==
    /\ \A p \in ReachIn(pages, rootPageNum, Len(pages)) :
          IsInnerIn(pages, p) =>
              \A i, j \in DOMAIN pages[p].pageNoArray :
                  (i < j /\ pages[p].pageNoArray[i] = 0) => pages[p].pageNoArray[j] = 0
    /\ \A p \in 1..Len(pages) :
          IsLeafIn(pages, p) =>
              \A i \in DOMAIN pages[p].ridArray :
                  pages[p].ridArray[i].page_number = 0 =>
                      /\ pages[p].keyArray[i] = 0
                      /\ \A j \in DOMAIN pages[p].ridArray :
                            i < j => pages[p].ridArray[j].page_number = 0

(***************************************************************************)
(* C22: a successful startScan leaves (currentPageNum, nextEntry) on the   *)
(* first entry, in the order of the sibling chain, that satisfies both     *)
(* bounds: no entry that precedes it in the chain satisfies the range,     *)
(* also when several entries have the key low and low is a separator.      *)
(***************************************************************************)
C22_StartScanFindsFirst ==
    (last.op = "startScan" /\ last.exc = "none") =>
        LET a == <<lowValInt, lowOp, highValInt, highOp>>
            chain == SiblingChain(pages, LeftmostLeaf(pages, rootPageNum, Len(pages)),
                                  Len(pages) + 1)
        IN  \E n \in 1..Len(chain) :
               /\ chain[n] = currentPageNum
               /\ \A k \in 1..(n - 1) :
                     \A key \in LeafKeysIn(pages, chain[k]) : ~Satisfies(a, key)
               /\ \A i \in 0..(nextEntry - 1) :
                     pages[currentPageNum].ridArray[i].page_number # 0
                        => ~Satisfies(a, pages[currentPageNum].keyArray[i])
               /\ Satisfies(a, pages[currentPageNum].keyArray[nextEntry])

(***************************************************************************)
(* C23: scanNext leaves the current leaf only when its position is past    *)
(* the last populated slot of that leaf; the entry in the final slot       *)
(* (leafOccupancy - 1) of a full leaf is evaluated, and returned if it is  *)
(* in range, before the scan advances.                                     *)
(***************************************************************************)
C23_FinalSlotEvaluated ==
    [][(/\ last'.op = "scanNext"
        /\ scanExecuting
        /\ IsLeafIn(pages, currentPageNum)
        /\ pinCnt[currentPageNum] > 0
        /\ currentPageData = currentPageNum
        /\ nextEntry < leafOccupancy
        /\ pages[currentPageNum].ridArray[nextEntry].page_number # 0)
          => /\ currentPageNum' = currentPageNum
             /\ Satisfies(<<lowValInt, lowOp, highValInt, highOp>>,
                          pages[currentPageNum].keyArray[nextEntry])
                   => last'.out = <<[key |-> pages[currentPageNum].keyArray[nextEntry],
                                     rid |-> pages[currentPageNum].ridArray[nextEntry]]>>]_vars

(***************************************************************************)
(* C24: a startScan call made while scanExecuting is true, also after      *)
(* scanNext raised IndexScanCompleted, ends the previous scan first: no    *)
(* page is unpinned that holds no pin, the leaf of the previous scan is    *)
(* released, and when the new startScan succeeds exactly one page, the new *)
(* current leaf, is pinned afterwards.                                     *)
(***************************************************************************)
C24_RestartEndsPreviousScan ==
    [][(scanExecuting /\ last'.op = "startScan")
          => /\ \A n \in 1..Len(last'.log) : last'.log[n].ev # "badunpin"
             /\ pinCnt[currentPageNum] > 0
                   => (last'.log # <<>> /\ last'.log[1] = Ev("unpin", currentPageNum, FALSE))
             /\ last'.exc = "none"
                   => /\ TotalPins' = 1
                      /\ pinCnt'[currentPageNum'] = 1]_vars

(***************************************************************************)
(* C25: a startScan call that fails with BadOpcodes, BadScanrange or       *)
(* NoSuchKeyFound leaves scanExecuting false and no pin of its own, on     *)
(* every failure path: the pins after the call are the pins before it less *)
(* the pin of the leaf of a scan that was active, so that no page is       *)
(* pinned when the scan's leaf was the only pinned page before the call.   *)
(***************************************************************************)
C25_FailedStartScanLeavesNothing ==
    [][(last'.op = "startScan"
        /\ last'.exc \in {"BadOpcodes", "BadScanrange", "NoSuchKeyFound"})
          => /\ ~scanExecuting'
             /\ pinCnt' = IF /\ scanExecuting
                             /\ currentPageNum \in 1..Len(pinCnt)
                             /\ pinCnt[currentPageNum] > 0
                          THEN [pinCnt EXCEPT ![currentPageNum] = @ - 1]
                          ELSE pinCnt
             /\ (\A p \in 1..Len(pinCnt) :
                    pinCnt[p] > 0 => (scanExecuting /\ p = currentPageNum /\ pinCnt[p] = 1))
                   => TotalPins' = 0]_vars

\* startScan ended a scan that held its leaf, walked from the root over more
\* than one leaf and found no key
C25_Witness ==
    /\ last.op = "startScan"
    /\ last.exc = "NoSuchKeyFound"
    /\ Len(last.log) >= 7
    /\ last.log[1].ev = "unpin"
    /\ IsLeafPage(last.log[1].page)
    /\ ~scanExecuting
    /\ TotalPins = 0

(***************************************************************************)
(* Leaf splits as a step of the index shows them: pg is the file before an *)
(* insertEntry call and pg2 the file after it.                             *)
(***************************************************************************)
\* the entries of leaf p, with their multiplicities
LeafEntryBag(pg, p) ==
    LET RECURSIVE From(_)
        From(i) == IF i \notin DOMAIN pg[p].ridArray THEN EmptyBag
                   ELSE (IF pg[p].ridArray[i].page_number # 0
                         THEN SetToBag({Entry(pg[p].keyArray[i], pg[p].ridArray[i])})
                         ELSE EmptyBag) (+) From(i + 1)
    IN  From(0)

\* leaf p has an entry in every slot
FullLeafIn(pg, p) ==
    \A i \in DOMAIN pg[p].ridArray : pg[p].ridArray[i].page_number # 0

\* the populated slots of leaf p are a prefix of its arrays, sorted by key
SortedLeafIn(pg, p) ==
    /\ \A i, j \in DOMAIN pg[p].ridArray :
          (i < j /\ pg[p].ridArray[j].page_number # 0)
             => (pg[p].ridArray[i].page_number # 0
                 /\ pg[p].keyArray[i] <= pg[p].keyArray[j])

\* <<old, new>>: the full leaf old was split and the leaf new allocated for it
LeafSplits(pg, pg2) ==
    {s \in (1..Len(pg)) \X ((Len(pg) + 1)..Len(pg2)) :
        /\ IsLeafIn(pg, s[1]) /\ IsLeafIn(pg2, s[1]) /\ IsLeafIn(pg2, s[2])
        /\ FullLeafIn(pg, s[1])
        /\ pg2[s[1]] # pg[s[1]]}

(***************************************************************************)
(* C26: when a full leaf receives a new (key, rid), the entries of the old *)
(* and the new leaf after the split are, as a multiset, the entries the    *)
(* leaf held and the new entry; each of the two leaves holds at least one  *)
(* and at most leafOccupancy entries, sorted by key; and every key of the  *)
(* old leaf is <= every key of the new leaf.                               *)
(***************************************************************************)
C26_LeafSplitKeepsEntries ==
    [][last'.op = "insertEntry" =>
         \A s \in LeafSplits(pages, pages') :
            /\ \E key \in Keys :
                  LeafEntryBag(pages', s[1]) (+) LeafEntryBag(pages', s[2])
                     = LeafEntryBag(pages, s[1]) (+) SetToBag({Entry(key, NextRid)})
            /\ \A p \in {s[1], s[2]} :
                  /\ BagCardinality(LeafEntryBag(pages', p)) \in 1..leafOccupancy
                  /\ SortedLeafIn(pages', p)
            /\ \A k1 \in LeafKeysIn(pages', s[1]), k2 \in LeafKeysIn(pages', s[2]) :
                  k1 <= k2]_vars

\* the last call split a leaf that is not the root: it wrote the old leaf p and
\* its new right sibling, which holds the new entry
C26_Witness ==
    /\ last.op = "insertEntry"
    /\ last.exc = "none"
    /\ \E p \in 1..Len(pages) :
          /\ IsLeafIn(pages, p)
          /\ p # initial
          /\ IsLeafIn(pages, pages[p].rightSibPageNo)
          /\ \E n \in 1..Len(last.log) : last.log[n] = Ev("unpin", p, TRUE)
          /\ \E n \in 1..Len(last.log) :
                last.log[n] = Ev("unpin", pages[p].rightSibPageNo, TRUE)
          /\ \E e \in BagToSet(LeafEntryBag(pages, pages[p].rightSibPageNo)) :
                e.rid.page_number = BagCardinality(inserted)

(***************************************************************************)
(* C27: after a leaf split, counting the new entry, the numbers of entries *)
(* of the two halves differ by at most one, for an even and for an odd     *)
(* fanout and for every position of the new key.                           *)
(***************************************************************************)
C27_LeafSplitBalanced ==
    [][last'.op = "insertEntry" =>
         \A s \in LeafSplits(pages, pages') :
            LET nOld == BagCardinality(LeafEntryBag(pages', s[1]))
                nNew == BagCardinality(LeafEntryBag(pages', s[2]))
            IN  nOld - nNew \in {-1, 0, 1}]_vars

(***************************************************************************)
(* C28: after a leaf split the entry passed up is (first key of the new    *)
(* leaf, page id of the new leaf) and that key stays in slot 0 of the new  *)
(* leaf (copy-up); the right sibling of the new leaf is the right sibling  *)
(* the old leaf had, and the right sibling of the old leaf is the new leaf.*)
(***************************************************************************)
C28_LeafSplitCopiesUp ==
    [][last'.op = "insertEntry" =>
         \A s \in LeafSplits(pages, pages') :
            /\ pages'[s[2]].rightSibPageNo = pages[s[1]].rightSibPageNo
            /\ pages'[s[1]].rightSibPageNo = s[2]
            /\ pages'[s[2]].ridArray[0].page_number # 0
            /\ last'.exc = "none" =>
                  \E p \in 1..Len(pages') :
                     /\ IsInnerIn(pages', p)
                     /\ \E i \in DOMAIN pages'[p].keyArray :
                           /\ pages'[p].pageNoArray[i + 1] = s[2]
                           /\ pages'[p].keyArray[i] = pages'[s[2]].keyArray[0]]_vars

(***************************************************************************)
(* Inner page splits as a step of the index shows them.                    *)
(***************************************************************************)
\* the non-zero child ids of inner page p, with their multiplicities
ChildBag(pg, p) ==
    LET RECURSIVE From(_)
        From(i) == IF i \notin DOMAIN pg[p].pageNoArray THEN EmptyBag
                   ELSE (IF pg[p].pageNoArray[i] # 0
                         THEN SetToBag({pg[p].pageNoArray[i]}) ELSE EmptyBag)
                        (+) From(i + 1)
    IN  From(0)

\* the keys of inner page p: those with a child to their right
InnerKeyBag(pg, p) ==
    LET RECURSIVE From(_)
        From(i) == IF i \notin DOMAIN pg[p].keyArray THEN EmptyBag
                   ELSE (IF pg[p].pageNoArray[i + 1] # 0
                         THEN SetToBag({pg[p].keyArray[i]}) ELSE EmptyBag)
                        (+) From(i + 1)
    IN  From(0)

\* <<old, new>>: the full inner page old was split and the page new allocated
\* for it; newRoot is the root after the call
InnerSplits(pg, pg2, newRoot) ==
    {s \in (1..Len(pg)) \X ((Len(pg) + 1)..Len(pg2)) :
        /\ IsInnerIn(pg, s[1]) /\ IsInnerIn(pg2, s[1]) /\ IsInnerIn(pg2, s[2])
        /\ \A i \in DOMAIN pg[s[1]].pageNoArray : pg[s[1]].pageNoArray[i] # 0
        /\ pg2[s[1]] # pg[s[1]]
        /\ s[2] # newRoot
        /\ pg2[s[2]].level = pg[s[1]].level}

(***************************************************************************)
(* C29: splitNonLeafNode on a full inner page keeps keys and children: the *)
(* old keys and the incoming key are the keys left in the old page, the    *)
(* keys of the new page and one separator that moves up and is stored in   *)
(* neither; every child the page had and the incoming child is in exactly  *)
(* one slot of the old or of the new page; each of the two pages has one   *)
(* more child than keys; and no array is written out of its bounds.        *)
(***************************************************************************)
C29_InnerSplitKeepsKeysAndChildren ==
    [][last'.op = "insertEntry" =>
         \A s \in InnerSplits(pages, pages', rootPageNum') :
            /\ \E key, up \in Keys \cup {TupleKey(j) : j \in 1..MaxRelation} :
                  InnerKeyBag(pages, s[1]) (+) SetToBag({key})
                     = InnerKeyBag(pages', s[1]) (+) InnerKeyBag(pages', s[2])
                          (+) SetToBag({up})
            /\ \E child \in (Len(pages) + 1)..Len(pages') :
                  ChildBag(pages', s[1]) (+) ChildBag(pages', s[2])
                     = ChildBag(pages, s[1]) (+) SetToBag({child})
            /\ \A p \in {s[1], s[2]} :
                  /\ pages'[p].pageNoArray[0] # 0
                  /\ BagCardinality(ChildBag(pages', p))
                        = BagCardinality(InnerKeyBag(pages', p)) + 1
            /\ fault' # "oob"]_vars

(***************************************************************************)
(* C30: when the page that splits is the root, a newly allocated inner     *)
(* page becomes the root; it holds exactly one key, the separator passed   *)
(* up, child 0 is the old root, child 1 the new sibling of the old root    *)
(* and every other child slot is zero; its level is 1 when the old root    *)
(* was the initial leaf root and 0 otherwise.                              *)
(***************************************************************************)
C30_RootSplitMakesNewRoot ==
    [][(last'.op = "insertEntry" /\ rootPageNum' # rootPageNum) =>
         LET new == (Len(pages) + 1)..Len(pages')
             root == pages'[rootPageNum']
             sib == root.pageNoArray[1]
         IN  /\ rootPageNum' \in new
             /\ IsInnerIn(pages', rootPageNum')
             /\ pages'[headerPageNum].rootPageNo = rootPageNum'
             /\ root.pageNoArray[0] = rootPageNum
             /\ sib \in new \ {rootPageNum'}
             /\ IsLeafIn(pages', sib) = IsLeafIn(pages, rootPageNum)
             /\ \A i \in DOMAIN root.pageNoArray : i >= 2 => root.pageNoArray[i] = 0
             /\ \A i \in DOMAIN root.keyArray : i >= 1 => root.keyArray[i] = 0
             /\ IF IsLeafIn(pages, rootPageNum)
                THEN /\ root.keyArray[0] = pages'[sib].keyArray[0]
                     /\ rootPageNum = initial
                     /\ root.level = 1
                ELSE /\ root.keyArray[0] \in
                           BagToSet(InnerKeyBag(pages, rootPageNum))
                              \cup {pages'[c].keyArray[0] : c \in {d \in new : IsLeafIn(pages', d)}}
                     /\ rootPageNum # initial
                     /\ root.level = 0]_vars

\* the last call split an inner root: the root is a page the call allocated,
\* its child 0 is an inner page and the root the meta page names
C30_Witness ==
    /\ last.op = "insertEntry"
    /\ last.exc = "none"
    /\ \E n \in 1..Len(last.log) : last.log[n] = Ev("unpin", rootPageNum, TRUE)
    /\ \E n \in 1..Len(last.log) : last.log[n] = Ev("unpin", headerPageNum, TRUE)
    /\ IsInnerIn(pages, rootPageNum)
    /\ IsInnerIn(pages, pages[rootPageNum].pageNoArray[0])
    /\ pages[rootPageNum].level = 0
    /\ pages[headerPageNum].rootPageNo = rootPageNum

(***************************************************************************)
(* The way down of a call as its log shows it: the pins a call takes       *)
(* before its first unpin are the pages of its descent, in order.          *)
(***************************************************************************)
\* event n of log belongs to the descent: no unpin comes before it
OnWayDown(log, n) == \A k \in 1..n : log[k].ev = "pin"

\* the number of keys of an inner page: the key slots left of its last child
NumKeys(node) ==
    LET used == {i \in DOMAIN node.pageNoArray : node.pageNoArray[i] # 0}
    IN  IF used = {} THEN 0 ELSE CHOOSE i \in used : \A j \in used : j <= i

\* the smallest index i such that i = number of keys or key <= keys[i]
InsertChild(node, key) ==
    CHOOSE i \in 0..NumKeys(node) :
        /\ i = NumKeys(node) \/ key <= node.keyArray[i]
        /\ \A j \in 0..(i - 1) : ~(key <= node.keyArray[j])

\* the call with the log log went from every inner page of pg it met to the
\* child that Child(node) names
DescentFollows(pg, log, Child(_)) ==
    \A n \in 1..Len(log) :
        (OnWayDown(log, n) /\ IsInnerIn(pg, log[n].page)) =>
            LET c == pg[log[n].page].pageNoArray[Child(pg[log[n].page])] IN
            IF c \in 1..Len(pg)
            THEN Len(log) > n /\ log[n + 1] = Ev("pin", c, FALSE)
            ELSE Len(log) = n

Pins(log) == SelectSeq(log, LAMBDA e : e.ev = "pin")

\* slot i of an inner page holds no key: there is no slot i, or no child right of it
NoKeyAt(node, i) == i \notin DOMAIN node.keyArray \/ node.pageNoArray[i + 1] = 0

\* the smallest index i such that keys[i] > low or slot i holds no key
ScanChild(node, low) ==
    CHOOSE i \in DOMAIN node.pageNoArray :
        /\ NoKeyAt(node, i) \/ node.keyArray[i] > low
        /\ \A j \in 0..(i - 1) : ~(NoKeyAt(node, j) \/ node.keyArray[j] > low)

(***************************************************************************)
(* C32: at every inner page on the way down, startScan descends into child *)
(* i, the smallest index such that keys[i] > low or slot i holds no key (i *)
(* is the number of keys), for every key value, zero and negative keys     *)
(* included.                                                               *)
(***************************************************************************)
C32_ScanDescent ==
    (life.handle = "open" /\ fault = "none") =>
        \A low \in ScanVals, high \in ScanVals, ops \in OpPairs :
            LET r == startScan(Machine, low, ops[1], high, ops[2])
                Child(node) == ScanChild(node, low)
            IN  (r.exc \notin {"BadOpcodes", "BadScanrange"} /\ r.fault = "none")
                    => DescentFollows(pages, Pins(r.log), Child)

\* the last call was a startScan with low 0 that went down from an inner root
\* over a negative separator and the separator 0 into the child right of 0
C32_Witness ==
    /\ last.op = "startScan"
    /\ last.exc = "none"
    /\ lowValInt = 0
    /\ IsInnerIn(pages, rootPageNum)
    /\ last.log[1] = Ev("pin", rootPageNum, FALSE)
    /\ \E i \in DOMAIN pages[rootPageNum].keyArray :
          /\ i >= 1
          /\ pages[rootPageNum].keyArray[i - 1] < 0
          /\ pages[rootPageNum].keyArray[i] = 0
          /\ pages[rootPageNum].pageNoArray[i + 1] # 0
          /\ last.log[3] = Ev("pin", pages[rootPageNum].pageNoArray[i + 1], FALSE)

\* the number of events of kind ev among the first n events of log
RECURSIVE EvCount(_, _, _)
EvCount(log, n, ev) ==
    IF n = 0 THEN 0
    ELSE EvCount(log, n - 1, ev) + (IF log[n].ev = ev THEN 1 ELSE 0)

\* the pins a call holds after event n of its log, when it held start pins
\* at its beginning
HeldAfter(log, n, start) == start + EvCount(log, n, "pin") - EvCount(log, n, "unpin")

(***************************************************************************)
(* C33: at every point of a startScan descent and of a scanNext call the   *)
(* scan holds at most one pinned page: an inner page is unpinned before    *)
(* the child chosen in it is pinned, and a leaf is unpinned before its     *)
(* right sibling is pinned.                                                *)
(***************************************************************************)
C33_ScanHoldsOnePin ==
    [][last'.op \in {"startScan", "scanNext"} =>
         LET start == IF /\ scanExecuting
                         /\ currentPageNum \in 1..Len(pinCnt)
                         /\ pinCnt[currentPageNum] > 0
                      THEN 1 ELSE 0
         IN  \A n \in 0..Len(last'.log) : HeldAfter(last'.log, n, start) \in {0, 1}]_vars

\* the last call was a startScan that went down from an inner root and then
\* from the first leaf to its right sibling
C33_Witness ==
    /\ last.op = "startScan"
    /\ last.exc = "none"
    /\ Len(last.log) >= 5
    /\ IsInnerIn(pages, last.log[1].page)
    /\ last.log[2] = Ev("unpin", rootPageNum, FALSE)
    /\ IsLeafIn(pages, last.log[3].page)
    /\ last.log[4] = Ev("unpin", last.log[3].page, FALSE)
    /\ last.log[5] = Ev("pin", pages[last.log[3].page].rightSibPageNo, FALSE)
    /\ TotalPins = 1

\* the pins on pages other than the meta page that a call holds after event n
\* of its log
RECURSIVE TreeHeldAfter(_, _, _)
TreeHeldAfter(log, n, meta) ==
    IF n = 0 THEN 0
    ELSE TreeHeldAfter(log, n - 1, meta)
         + (IF log[n].page = meta THEN 0
            ELSE IF log[n].ev = "pin" THEN 1
            ELSE IF log[n].ev = "unpin" THEN -1 ELSE 0)

(***************************************************************************)
(* C34: at every point of an insertEntry call, whatever the height of the  *)
(* tree, the call holds at most three pinned tree pages (parent, old child *)
(* and newly allocated child); the meta page is pinned in addition only    *)
(* while a root split is recorded.                                         *)
(***************************************************************************)
C34_InsertHoldsThreePins ==
    last.op = "insertEntry" =>
        \A n \in 0..Len(last.log) : TreeHeldAfter(last.log, n, headerPageNum) <= 3

\* page p of the path led to a page that the call split: the call allocated a
\* page of the kind and level of the page it went to from p, other than a new
\* root, so an entry was passed up into p
Absorbed(pg, pg2, newRoot, log, p) ==
    /\ IsInnerIn(pg, p)
    /\ \E k \in 1..(Len(log) - 1) :
          /\ OnWayDown(log, k + 1)
          /\ log[k].page = p
          /\ \E q \in ((Len(pg) + 1)..Len(pg2)) \ {newRoot} :
                \/ IsLeafIn(pg, log[k + 1].page) /\ IsLeafIn(pg2, q)
                \/ /\ IsInnerIn(pg, log[k + 1].page) /\ IsInnerIn(pg2, q)
                   /\ pg2[q].level = pg[log[k + 1].page].level

(***************************************************************************)
(* C35: insertEntry unpins a page dirty if and only if the call modified   *)
(* it: the leaf that took the entry, both pages of a split, a parent that  *)
(* took an entry passed up, a new root and the meta page of a root split   *)
(* are unpinned dirty; an inner page of the path into which no entry was   *)
(* passed up is unpinned clean.                                            *)
(***************************************************************************)
C35_DirtyIffModified ==
    [][last'.op = "insertEntry" =>
         \A n \in 1..Len(last'.log) :
            last'.log[n].ev = "unpin" =>
               (last'.log[n].dirty
                  <=> \/ last'.log[n].page > Len(pages)
                      \/ pages'[last'.log[n].page] # pages[last'.log[n].page]
                      \/ Absorbed(pages, pages', rootPageNum', last'.log,
                                  last'.log[n].page))]_vars

\* the last call went down over two inner pages and split a leaf: the leaf
\* and its new sibling were unpinned dirty, the inner page above them took
\* the entry passed up and was unpinned dirty, the root was unpinned clean
C35_Witness ==
    /\ last.op = "insertEntry"
    /\ last.exc = "none"
    /\ Len(last.log) = 8
    /\ OnWayDown(last.log, 4)
    /\ last.log[1].page = rootPageNum
    /\ IsInnerIn(pages, last.log[2].page)
    /\ IsLeafIn(pages, last.log[3].page)
    /\ last.log[5] = Ev("unpin", last.log[3].page, TRUE)
    /\ last.log[6] = Ev("unpin", last.log[4].page, TRUE)
    /\ last.log[7] = Ev("unpin", last.log[2].page, TRUE)
    /\ last.log[8] = Ev("unpin", rootPageNum, FALSE)

(***************************************************************************)
(* C36: in every state of an open handle, whether it created the index     *)
(* file or opened an existing one, the test rootPageNum = initial is true  *)
(* exactly when the current root page is a leaf.                           *)
(***************************************************************************)
C36_RootIsLeafTest ==
    life.handle = "open" =>
        ((rootPageNum = initial) <=> IsLeafIn(pages, rootPageNum))

(***************************************************************************)
(* C37: when the index file does not exist, the constructor creates a meta *)
(* page and an empty leaf root and calls insertEntry once per tuple of the *)
(* relation; for a finite relation the build ends, no exception leaves the *)
(* constructor, the file is flushed once at the end, and no page is pinned *)
(* when the constructor returns.                                           *)
(***************************************************************************)
C37_BuildCompletes ==
    /\ life.handle # "none"
    /\ fault = "none"
    /\ (life.handle = "building" /\ built + nPublic = 0) =>
           /\ Len(pages) = 2
           /\ pages[headerPageNum].rootPageNo = rootPageNum
           /\ IsLeafIn(pages, rootPageNum)
           /\ LeafEntryBag(pages, rootPageNum) = EmptyBag
    /\ BagCardinality(inserted) = built + nPublic
    /\ life.handle = "open" =>
           /\ last.exc = "none"
           /\ last.log = <<Ev("flush", 0, FALSE)>>
           /\ TotalPins = 0

(***************************************************************************)
(* C38: after any sequence of insertEntry calls, the leaves reachable from *)
(* the root through child page ids are exactly the leaves on the sibling   *)
(* chain that starts at the leftmost leaf: no split drops a child pointer  *)
(* or leaves a subtree unreachable.                                        *)
(***************************************************************************)
C38_LeavesReachable ==
    (life.handle = "open" /\ fault = "none") =>
        LET down  == {p \in ReachIn(pages, rootPageNum, Len(pages)) : IsLeafIn(pages, p)}
            chain == SiblingChain(pages, LeftmostLeaf(pages, rootPageNum, Len(pages)),
                                  Len(pages))
        IN  down = {chain[n] : n \in 1..Len(chain)}

\* the lengths of the paths from page p down to the leaves below it
RECURSIVE LeafDepths(_, _, _)
LeafDepths(pg, p, fuel) ==
    IF IsLeafIn(pg, p) THEN {0}
    ELSE IF fuel = 0 \/ ~IsInnerIn(pg, p) THEN {}
    ELSE {d + 1 : d \in UNION {LeafDepths(pg, q, fuel - 1) : q \in ChildrenIn(pg, p)}}

(***************************************************************************)
(* C39: after any sequence of insertEntry calls every path from the root   *)
(* to a leaf has the same length, and an inner page has level 1 exactly    *)
(* when its children are leaves and level 0 exactly when its children are  *)
(* inner pages.                                                            *)
(***************************************************************************)
C39_LevelsAndHeight ==
    (life.handle = "open" /\ fault = "none") =>
        /\ Cardinality(LeafDepths(pages, rootPageNum, Len(pages))) <= 1
        /\ \A p \in ReachIn(pages, rootPageNum, Len(pages)) :
             IsInnerIn(pages, p) =>
                /\ pages[p].level \in {0, 1}
                /\ pages[p].level = 1 => \A q \in ChildrenIn(pages, p) : IsLeafIn(pages, q)
                /\ pages[p].level = 0 => \A q \in ChildrenIn(pages, p) : IsInnerIn(pages, q)

\* an insertEntry call has split the inner root: the new root has level 0 over
\* inner pages of level 1, and every leaf is two pages below the root
C39_Witness ==
    /\ last.op = "insertEntry"
    /\ last.exc = "none"
    /\ fault = "none"
    /\ last.log # <<>>
    /\ IsInnerIn(pages, rootPageNum)
    /\ last.log[1] = Ev("pin", pages[rootPageNum].pageNoArray[0], FALSE)
    /\ \E n \in 2..Len(last.log) : last.log[n] = Ev("pin", rootPageNum, FALSE)
    /\ pages[rootPageNum].level = 0
    /\ LeafDepths(pages, rootPageNum, Len(pages)) = {2}
    /\ \A q \in ChildrenIn(pages, rootPageNum) : pages[q].level = 1

(***************************************************************************)
(* C40: startScan, scanNext and endScan never modify the index: whether    *)
(* the call succeeds or fails, every unPinPage it issues passes dirty =    *)
(* false, and the contents of every leaf, inner and meta page and          *)
(* rootPageNum are what they were before the call.                         *)
(***************************************************************************)
C40_ScansReadOnly ==
    [][last'.op \in {"startScan", "scanNext", "endScan"} =>
          /\ pages' = pages
          /\ rootPageNum' = rootPageNum
          /\ \A n \in 1..Len(last'.log) :
                last'.log[n].ev \in {"unpin", "badunpin"} => ~last'.log[n].dirty]_vars

\* a scanNext call that returned a record after it left a leaf for its right sibling
C40_Witness ==
    /\ last.op = "scanNext"
    /\ last.exc = "none"
    /\ last.out # <<>>
    /\ \E n \in 1..Len(last.log) : last.log[n].ev = "unpin"
    /\ \E n \in 1..Len(last.log) : last.log[n] = Ev("pin", currentPageNum, FALSE)

====
